---- MODULE Spec2Model ----
(***************************************************************************)
(* A model of the Job Listing API scraper core:                            *)
(*   - the facet cache of BaseScraper (get_categories / get_locations),    *)
(*   - the ScraperRegistry,                                                *)
(*   - the listing URL builder and the pagination resolver of              *)
(*     JobsBotswanaScraper.                                                *)
(* Each part has its own specification over the shared variables:          *)
(* SpecCache, SpecRegistry, SpecUrl, SpecPagination, SpecScrape.           *)
(***************************************************************************)
EXTENDS Integers, Sequences, FiniteSets, TLC

VARIABLES
    now,                \* datetime.utcnow(), in seconds
    categories_cache,   \* BaseScraper._categories_cache
    locations_cache,    \* BaseScraper._locations_cache
    pc,                 \* where each concurrent get_* call stands
    last,               \* the most recent step of a get_* call: what it found and did
    scrapers,           \* ScraperRegistry._scrapers (an insertion-ordered dict)
    registered,         \* the scrapers passed to register, in call order
    registries,         \* the ScraperRegistry objects constructed so far
    via,                \* the ScraperRegistry object each register call was made on
    url_args,           \* arguments of _build_listing_url
    url,                \* its result
    pag_args,           \* arguments of _parse_pagination
    pag,                \* its result
    running,            \* the scrape operation called last: its arguments and where it stands
    fetches,            \* the URLs it has passed to fetch_page, in order
    result              \* what it returned, or the exception that left it

vars == <<now, categories_cache, locations_cache, pc, last, scrapers, registered,
          registries, via,
          url_args, url, pag_args, pag, running, fetches, result>>

cache_vars == <<now, categories_cache, locations_cache, pc, last>>
registry_vars == <<scrapers, registered, registries, via>>
url_vars == <<url_args, url>>
pag_vars == <<pag_args, pag>>
scrape_vars == <<running, fetches, result>>
other_than_scrape == <<cache_vars, registry_vars, url_vars, pag_vars>>

\* Python's None: an Optional value is None or holds its value, Some(x); a
\* tuple-valued Optional is None or the tuple itself
None == <<>>
Some(x) == <<x>>

----------------------------------------------------------------------------
(* Strings: helpers for Python's str operations and re.search patterns.    *)

\* the character of s at position i (1-based)
CharAt(s, i) == SubSeq(s, i, i)

\* sub in s
Contains(s, sub) ==
    \E i \in 1..(Len(s) - Len(sub) + 1) : SubSeq(s, i, i + Len(sub) - 1) = sub

\* s.endswith(sub)
EndsWith(s, sub) ==
    Len(s) >= Len(sub) /\ SubSeq(s, Len(s) - Len(sub) + 1, Len(s)) = sub

\* s.startswith(sub)
StartsWith(s, sub) == Len(s) >= Len(sub) /\ SubSeq(s, 1, Len(sub)) = sub

RECURSIVE join_reversed(_, _)
\* a slip: the parts joined last to first
join_reversed(sep, parts) ==
    IF parts = <<>> THEN ""
    ELSE IF Len(parts) = 1 THEN parts[1]
    ELSE join_reversed(sep, Tail(parts)) \o sep \o parts[1]

RECURSIVE join(_, _)
\* sep.join(parts)
join(sep, parts) ==
    IF parts = <<>> THEN ""
    ELSE IF Len(parts) = 1 THEN parts[1]
    ELSE parts[1] \o sep \o join(sep, Tail(parts))

UpperChars == "ABCDEFGHIJKLMNOPQRSTUVWXYZ"
LowerChars == "abcdefghijklmnopqrstuvwxyz"

\* str.lower() on one character
LowerChar(c) ==
    IF \E i \in 1..Len(UpperChars) : CharAt(UpperChars, i) = c
    THEN CharAt(LowerChars, CHOOSE i \in 1..Len(UpperChars) : CharAt(UpperChars, i) = c)
    ELSE c

RECURSIVE lower(_)
\* s.lower()
lower(s) == IF s = "" THEN "" ELSE LowerChar(Head(s)) \o lower(Tail(s))

RECURSIVE replace_char(_, _, _)
\* s.replace(old, new) for a one-character old
replace_char(s, old, new) ==
    IF s = "" THEN ""
    ELSE (IF Head(s) = old THEN new ELSE Head(s)) \o replace_char(Tail(s), old, new)

\* name.lower().replace(' ', '-')
name_slug(name) == replace_char(lower(name), " ", "-")

\* str.upper() on one character
UpperChar(c) ==
    IF \E i \in 1..Len(LowerChars) : CharAt(LowerChars, i) = c
    THEN CharAt(UpperChars, CHOOSE i \in 1..Len(LowerChars) : CharAt(LowerChars, i) = c)
    ELSE c

\* a slip: the word is left as it is
capitalize_not(word) == word

\* word.capitalize(): the first character in upper case, the rest in lower
capitalize(word) ==
    IF word = "" THEN "" ELSE UpperChar(Head(word)) \o lower(Tail(word))

RECURSIVE split(_, _)
\* s.split(sep), sep not empty
split(s, sep) ==
    LET hits == {i \in 1..(Len(s) - Len(sep) + 1) : SubSeq(s, i, i + Len(sep) - 1) = sep}
    IN  IF hits = {} THEN <<s>>
        ELSE LET i == CHOOSE k \in hits : \A j \in hits : k <= j
             IN  <<SubSeq(s, 1, i - 1)>> \o split(SubSeq(s, i + Len(sep), Len(s)), sep)

\* s.replace(old, new), old not empty
replace(s, old, new) == join(new, split(s, old))

RECURSIVE lstrip(_)
lstrip(s) == IF s # "" /\ Head(s) \in {" ", "\t", "\n", "\r"} THEN lstrip(Tail(s)) ELSE s

RECURSIVE rstrip(_)
rstrip(s) ==
    IF s # "" /\ CharAt(s, Len(s)) \in {" ", "\t", "\n", "\r"}
    THEN rstrip(SubSeq(s, 1, Len(s) - 1)) ELSE s

\* s.strip()
strip(s) == lstrip(rstrip(s))

\* ' '.join(word.capitalize() for word in slug.split('-'))
title_case(slug) ==
    LET words == split(slug, "-")
    IN  join(" ", [i \in 1..Len(words) |-> capitalize(words[i])])

\* TLA+ strings are ASCII: "~" stands for the en dash U+2013
EnDash == "~"
\* and "=" for the em dash U+2014
EmDash == "="

IsDigit(c) == c \in {"0", "1", "2", "3", "4", "5", "6", "7", "8", "9"}
IsSpace(c) == c \in {" ", "\t", "\n", "\r"}

\* the value of one decimal digit
DigitValue(c) == CHOOSE d \in 0..9 : ToString(d) = c

RECURSIVE int_acc(_, _)
int_acc(digits, acc) ==
    IF digits = "" THEN acc
    ELSE int_acc(Tail(digits), 10 * acc + DigitValue(Head(digits)))

\* int(digits) of a string of decimal digits
int(digits) == int_acc(digits, 0)

\* TLA+ strings are ASCII: "^" stands for the superscript two U+00B2, a
\* character that str.isdigit() accepts and that neither \d nor int() accepts
SuperTwo == "^"

\* int(text) raised
ValueError == [raised |-> "ValueError"]

\* int(text) raises ValueError: text is not a string of decimal digits
int_raises(text) == text = "" \/ \E i \in 1..Len(text) : ~IsDigit(CharAt(text, i))

\* text.isdigit()
isdigit(text) ==
    text # "" /\ \A i \in 1..Len(text) : IsDigit(CharAt(text, i)) \/ CharAt(text, i) = SuperTwo

RECURSIVE DigitsEnd(_, _)
\* the first position from i on that holds no digit (\d+ is greedy)
DigitsEnd(s, i) ==
    IF i <= Len(s) /\ IsDigit(CharAt(s, i)) THEN DigitsEnd(s, i + 1) ELSE i

RECURSIVE SpacesEnd(_, _)
\* the first position from i on that holds no whitespace (\s+ is greedy)
SpacesEnd(s, i) ==
    IF i <= Len(s) /\ IsSpace(CharAt(s, i)) THEN SpacesEnd(s, i + 1) ELSE i

\* s[i:i+len(lit)] == lit, ignoring case when asked to
LitAt(s, i, lit, ignorecase) ==
    /\ i + Len(lit) - 1 <= Len(s)
    /\ LET part == SubSeq(s, i, i + Len(lit) - 1)
       IN  IF ignorecase THEN lower(part) = lower(lit) ELSE part = lit

RECURSIVE RunEnd(_, _)
\* the last position of the maximal run of non-'/' characters starting at i
RunEnd(s, i) ==
    IF i < Len(s) /\ CharAt(s, i + 1) # "/" THEN RunEnd(s, i + 1) ELSE i

\* re.search(prefix + r'([^/]+)/?', href): None or the match's groups
path_slug(prefix, href) ==
    LET starts == {i \in 1..Len(href) :
                      /\ i + Len(prefix) <= Len(href)
                      /\ SubSeq(href, i, i + Len(prefix) - 1) = prefix
                      /\ CharAt(href, i + Len(prefix)) # "/"}
    IN  IF starts = {} THEN None
        ELSE LET i == CHOOSE k \in starts : \A j \in starts : k <= j
                 b == i + Len(prefix)
             IN  Some(SubSeq(href, b, RunEnd(href, b)))

----------------------------------------------------------------------------
(* Facet scraping: scrape_categories and scrape_locations.                 *)

\* fetch_page raised
FetchError == [raised |-> "FetchError"]

\* A fetched page, reduced to its two sidebar widgets.  A widget is None
\* (absent) or Some(the list of its li.cat-item elements); an li is
\* [a |-> None or Some([href, text, title]), count |-> None or Some(N), the
\* groups of re.search(r'\((\d+)\)', li_text)].
Li(href, text, count_match) ==
    [a |-> Some([href |-> href, text |-> text, title |-> None]), count |-> count_match]

PageEmpty == [category_widget |-> None, location_widget |-> None]

PageA ==
    [category_widget |-> Some(
        << Li("https://jobsbotswana.info/job-category/nurse/", "Nurse", Some(3)) >>),
     location_widget |-> Some(
        << Li("https://jobsbotswana.info/job-location/maun/", "Maun", Some(2)),
           Li("https://jobsbotswana.info/job-location/gaborone/", "Gaborone", Some(7)) >>)]

PageB ==
    [category_widget |-> Some(
        << Li("https://jobsbotswana.info/job-category/driver/", "Driver", Some(4)),
           Li("", "Sales Rep", None) >>),
     location_widget |-> Some(
        << Li("https://jobsbotswana.info/job-location/maun/", "Maun", Some(5)) >>)]

Pages == {PageEmpty, PageA, PageB}

\* what "await self.fetch_page(url)" can produce
FetchOutcomes == {FetchError} \cup Pages

\* one li -> JobCategory
parse_category(li) ==
    LET link == li.a[1]
        slug_match == path_slug("/job-category/", link.href)
    IN  [slug  |-> IF slug_match # None THEN slug_match[1] ELSE name_slug(link.text),
         name  |-> link.text,
         count |-> IF li.count # None THEN li.count[1] ELSE 0,
         url   |-> link.href]

\* one li -> JobLocation
parse_location(li) ==
    LET link == li.a[1]
        slug_match == path_slug("/job-location/", link.href)
    IN  [slug  |-> IF slug_match # None THEN slug_match[1] ELSE name_slug(link.text),
         name  |-> link.text,
         count |-> IF li.count # None THEN li.count[1] ELSE 0,
         description |-> link.title,
         url   |-> link.href]

RECURSIVE parse_items(_, _, _)
\* the loop over the li elements: those without a link are skipped
parse_items(lis, kind, acc) ==
    IF lis = <<>> THEN acc
    ELSE LET li == Head(lis)
         IN  parse_items(Tail(lis), kind,
                IF li.a = None THEN acc
                ELSE Append(acc, IF kind = "category" THEN parse_category(li)
                                 ELSE parse_location(li)))

RECURSIVE insert_by_count_before_ties(_, _)
\* a slip: x goes in front of the elements of its own count
insert_by_count_before_ties(sorted, x) ==
    IF sorted = <<>> THEN <<x>>
    ELSE IF Head(sorted).count > x.count
         THEN <<Head(sorted)>> \o insert_by_count_before_ties(Tail(sorted), x)
         ELSE <<x>> \o sorted

RECURSIVE insert_by_count(_, _)
\* insert x behind every element whose count is >= x.count
insert_by_count(sorted, x) ==
    IF sorted = <<>> THEN <<x>>
    ELSE IF Head(sorted).count >= x.count
         THEN <<Head(sorted)>> \o insert_by_count(Tail(sorted), x)
         ELSE <<x>> \o sorted

RECURSIVE sort_by_count_desc(_, _)
\* list.sort(key=lambda x: x.count, reverse=True): stable
sort_by_count_desc(xs, acc) ==
    IF xs = <<>> THEN acc
    ELSE sort_by_count_desc(Tail(xs), insert_by_count(acc, Head(xs)))

\* a slip: the fetch error leaves scrape_categories
scrape_categories_raising(fetched) ==
    IF fetched = FetchError THEN FetchError
    ELSE IF fetched.category_widget = None THEN <<>>
    ELSE parse_items(fetched.category_widget[1], "category", <<>>)

scrape_categories(fetched) ==
    IF fetched = FetchError THEN <<>>
    ELSE IF fetched.category_widget = None THEN <<>>
    ELSE parse_items(fetched.category_widget[1], "category", <<>>)

scrape_locations(fetched) ==
    IF fetched = FetchError THEN <<>>
    ELSE sort_by_count_desc(
            IF fetched.location_widget = None THEN <<>>
            ELSE parse_items(fetched.location_widget[1], "location", <<>>),
            <<>>)

----------------------------------------------------------------------------
(* The facet cache: BaseScraper.get_categories / get_locations.            *)

\* the two scrapes, tabulated over the fetch outcomes
categories_of == [fetched \in FetchOutcomes |-> scrape_categories(fetched)]
locations_of == [fetched \in FetchOutcomes |-> scrape_locations(fetched)]

\* self._cache_ttl
cache_ttl == 300

\* how many seconds past the TTL the clock runs
MaxOverdue == 1
\* how many get_* calls may be in flight at once
NumCalls == 2

Calls == 1..NumCalls
Ops == {"get_categories", "get_locations"}

\* the instants the clock is read at: the start, and around the TTL
Times == {0, cache_ttl - 1, cache_ttl} \cup {cache_ttl + d : d \in 1..MaxOverdue}

\* no get_* call has run yet
NoStep == [op |-> "none", step |-> "none"]

Idle == [at |-> "idle"]
\* suspended in "await self.scrape_...()", inside fetch_page
Await(op) == [at |-> "await", op |-> op]

\* what a call finds in its slot as it starts: nothing, or an entry of an age
\* below, equal to or above the TTL
Found(slot) ==
    IF slot = None THEN "absent"
    ELSE IF now - slot[2] < cache_ttl THEN "fresh"
    ELSE IF now - slot[2] = cache_ttl THEN "at_ttl"
    ELSE "past_ttl"

\* a slip: the truth value of the cached list, not of the (list, time) tuple
truthy_of_list(x) == x # None /\ Len(x[1]) > 0

\* bool(x) of an Optional[Tuple]: None and the empty tuple are falsy
truthy(x) == x # None /\ Len(x) > 0

\* a slip: the TTL of "5 minutes" compared as minutes against seconds
is_cache_valid_minutes(cache_time) ==
    IF cache_time \notin Int THEN FALSE
    ELSE LET elapsed == now - cache_time
         IN  elapsed < cache_ttl \div 60

\* a slip: an entry of exactly the TTL's age still counts as valid
is_cache_valid_inclusive(cache_time) ==
    IF cache_time \notin Int THEN FALSE
    ELSE LET elapsed == now - cache_time
         IN  elapsed <= cache_ttl

\* _is_cache_valid(cache_time), the clock reading `now`
is_cache_valid(cache_time) ==
    IF cache_time \notin Int THEN FALSE   \* cache_time is None
    ELSE LET elapsed == now - cache_time
         IN  elapsed < cache_ttl

\* a slip: force_refresh is not consulted
serve_cached_ignoring_force(force_refresh, cache) ==
    truthy(cache) /\ is_cache_valid(cache[2])

\* the test that lets get_categories / get_locations answer from the slot
serve_cached(force_refresh, cache) ==
    ~force_refresh /\ truthy(cache) /\ is_cache_valid(cache[2])

\* the parts of the state a specification does not exercise stay as constructed
CacheAtRest ==
    /\ now = 0 /\ categories_cache = None /\ locations_cache = None
    /\ pc = [p \in Calls |-> Idle] /\ last = NoStep
\* a ScraperRegistry object: its own _scrapers attribute (None: it has none,
\* the lookup goes to the class), and how many register calls preceded its
\* construction
Registry(own_scrapers, constructed_after) ==
    [own_scrapers |-> own_scrapers, constructed_after |-> constructed_after]

RegistryAtRest ==
    /\ scrapers = <<>> /\ registered = <<>>
    /\ registries = <<Registry(None, 0)>> /\ via = <<>>
UrlAtRest == url_args = None /\ url = None
PagAtRest == pag_args = None /\ pag = None

\* no scrape operation has been called yet
NotRunning == [op |-> "none", at |-> "returned"]
ScrapeAtRest == running = NotRunning /\ fetches = <<>> /\ result = None

InitCache ==
    /\ now = 0
    /\ categories_cache = None
    /\ locations_cache = None
    /\ pc = [p \in Calls |-> Idle]
    /\ last = NoStep
    /\ RegistryAtRest /\ UrlAtRest /\ PagAtRest /\ ScrapeAtRest

\* time passes between two steps of the event loop
Tick ==
    /\ \E t \in Times : t > now /\ now' = t
    /\ UNCHANGED <<categories_cache, locations_cache, pc, last>>

\* a slip: a hit renews the entry's capturedAt
get_categories_renewing(p, force_refresh) ==
    /\ pc[p] = Idle
    /\ IF serve_cached(force_refresh, categories_cache)
       THEN /\ last' = [op |-> "get_categories", call |-> p, step |-> "hit",
                        force_refresh |-> force_refresh,
                        found |-> Found(categories_cache),
                        value |-> categories_cache[1], was_cached |-> TRUE]
            /\ pc' = pc
            /\ categories_cache' = <<categories_cache[1], now>>
       ELSE /\ last' = [op |-> "get_categories", call |-> p, step |-> "miss",
                        force_refresh |-> force_refresh,
                        found |-> Found(categories_cache)]
            /\ pc' = [pc EXCEPT ![p] = Await("get_categories")]
            /\ categories_cache' = categories_cache
    /\ UNCHANGED <<now, locations_cache>>

\* get_categories(force_refresh) from its call to its return on a hit, or to
\* the await of the scrape
get_categories(p, force_refresh) ==
    /\ pc[p] = Idle
    /\ IF serve_cached(force_refresh, categories_cache)
       THEN /\ last' = [op |-> "get_categories", call |-> p, step |-> "hit",
                        force_refresh |-> force_refresh,
                        found |-> Found(categories_cache),
                        value |-> categories_cache[1], was_cached |-> TRUE]
            /\ pc' = pc
       ELSE /\ last' = [op |-> "get_categories", call |-> p, step |-> "miss",
                        force_refresh |-> force_refresh,
                        found |-> Found(categories_cache)]
            /\ pc' = [pc EXCEPT ![p] = Await("get_categories")]
    /\ UNCHANGED <<now, categories_cache, locations_cache>>

\* a slip: a refresh of the categories throws the locations away as well
get_categories_resume_clearing_locations(p, fetched) ==
    /\ pc[p] = Await("get_categories")
    /\ LET categories == categories_of[fetched]
       IN  /\ categories_cache' = <<categories, now>>
           /\ last' = [op |-> "get_categories", call |-> p, step |-> "stored",
                       fetched |-> fetched,
                       value |-> categories, was_cached |-> FALSE, at |-> now]
    /\ pc' = [pc EXCEPT ![p] = Idle]
    /\ locations_cache' = None
    /\ UNCHANGED now

\* a slip: a slot that is already filled is left alone (first writer wins)
get_categories_resume_keep_first(p, fetched) ==
    /\ pc[p] = Await("get_categories")
    /\ LET categories == categories_of[fetched]
       IN  /\ categories_cache' = IF categories_cache = None THEN <<categories, now>>
                                  ELSE categories_cache
           /\ last' = [op |-> "get_categories", call |-> p, step |-> "stored",
                       fetched |-> fetched,
                       value |-> categories, was_cached |-> FALSE, at |-> now]
    /\ pc' = [pc EXCEPT ![p] = Idle]
    /\ UNCHANGED <<now, locations_cache>>

\* the scrape completes: the slot is overwritten and the call returns
get_categories_resume(p, fetched) ==
    /\ pc[p] = Await("get_categories")
    /\ LET categories == categories_of[fetched]
       IN  /\ categories_cache' = <<categories, now>>
           /\ last' = [op |-> "get_categories", call |-> p, step |-> "stored",
                       fetched |-> fetched,
                       value |-> categories, was_cached |-> FALSE, at |-> now]
    /\ pc' = [pc EXCEPT ![p] = Idle]
    /\ UNCHANGED <<now, locations_cache>>

\* get_locations(force_refresh) from its call to its return on a hit, or to
\* the await of the scrape
get_locations(p, force_refresh) ==
    /\ pc[p] = Idle
    /\ IF serve_cached(force_refresh, locations_cache)
       THEN /\ last' = [op |-> "get_locations", call |-> p, step |-> "hit",
                        force_refresh |-> force_refresh,
                        found |-> Found(locations_cache),
                        value |-> locations_cache[1], was_cached |-> TRUE]
            /\ pc' = pc
       ELSE /\ last' = [op |-> "get_locations", call |-> p, step |-> "miss",
                        force_refresh |-> force_refresh,
                        found |-> Found(locations_cache)]
            /\ pc' = [pc EXCEPT ![p] = Await("get_locations")]
    /\ UNCHANGED <<now, categories_cache, locations_cache>>

\* a slip: an empty scrape result is returned but not stored
get_locations_resume_skip_empty(p, fetched) ==
    /\ pc[p] = Await("get_locations")
    /\ LET locations == locations_of[fetched]
       IN  /\ locations_cache' = IF locations = <<>> THEN locations_cache
                                 ELSE <<locations, now>>
           /\ last' = [op |-> "get_locations", call |-> p, step |-> "stored",
                       fetched |-> fetched,
                       value |-> locations, was_cached |-> FALSE, at |-> now]
    /\ pc' = [pc EXCEPT ![p] = Idle]
    /\ UNCHANGED <<now, categories_cache>>

\* the scrape completes: the slot is overwritten and the call returns
get_locations_resume(p, fetched) ==
    /\ pc[p] = Await("get_locations")
    /\ LET locations == locations_of[fetched]
       IN  /\ locations_cache' = <<locations, now>>
           /\ last' = [op |-> "get_locations", call |-> p, step |-> "stored",
                       fetched |-> fetched,
                       value |-> locations, was_cached |-> FALSE, at |-> now]
    /\ pc' = [pc EXCEPT ![p] = Idle]
    /\ UNCHANGED <<now, categories_cache>>

NextCache ==
    \/ Tick /\ UNCHANGED <<registry_vars, url_vars, pag_vars, scrape_vars>>
    \/ \E p \in Calls, force_refresh \in BOOLEAN :
          get_categories(p, force_refresh) /\ UNCHANGED <<registry_vars, url_vars, pag_vars, scrape_vars>>
    \/ \E p \in Calls, fetched \in FetchOutcomes :
          get_categories_resume(p, fetched) /\ UNCHANGED <<registry_vars, url_vars, pag_vars, scrape_vars>>
    \/ \E p \in Calls, force_refresh \in BOOLEAN :
          get_locations(p, force_refresh) /\ UNCHANGED <<registry_vars, url_vars, pag_vars, scrape_vars>>
    \/ \E p \in Calls, fetched \in FetchOutcomes :
          get_locations_resume(p, fetched) /\ UNCHANGED <<registry_vars, url_vars, pag_vars, scrape_vars>>

SpecCache == InitCache /\ [][NextCache]_vars

\* the slot of a get_* operation, and the scrape behind it
slot(op) == IF op = "get_categories" THEN categories_cache ELSE locations_cache
scrape(op, fetched) ==
    IF op = "get_categories" THEN scrape_categories(fetched) ELSE scrape_locations(fetched)

\* `last` is a call's first step (it returned from the slot, or suspended in
\* its scrape); no step since has touched a slot
AtCheck == last.step \in {"hit", "miss"}

\* C1: for get_categories and get_locations alike, a call with
\* force_refresh=False that finds the slot filled and younger than the TTL
\* returns (the slot's value, wasCached=True) and starts no scrape.
C1_GetWithinTtlIsServedFromSlot ==
    \A op \in Ops :
        (AtCheck /\ last.op = op /\ ~last.force_refresh /\ last.found = "fresh")
        => /\ last.step = "hit"
           /\ last.was_cached = TRUE
           /\ last.value = slot(op)[1]
           /\ pc[last.call] = Idle

\* a non-forced call one second before the TTL runs out got the non-empty
\* list the slot holds, as cached
C1_Witness ==
    /\ last.step = "hit" /\ ~last.force_refresh /\ last.found = "fresh"
    /\ last.value # <<>>
    /\ now - slot(last.op)[2] = cache_ttl - 1

\* C2: a call with force_refresh=True, or one that finds its slot absent or
\* of an age >= TTL, always goes into the scrape; when a scrape completes,
\* the slot is overwritten with (newValue, now) and the call returns
\* (newValue, wasCached=False), newValue being what the scrape made of the
\* fetch.
C2_ForcedOrStaleGetScrapesAndOverwrites ==
    /\ (AtCheck /\ (last.force_refresh \/ last.found # "fresh"))
        => /\ last.step = "miss"
           /\ pc[last.call] = Await(last.op)
    /\ last.step = "stored"
        => /\ last.value = scrape(last.op, last.fetched)
           /\ last.was_cached = FALSE
           /\ last.at <= now
           /\ slot(last.op) = <<last.value, last.at>>

\* a forced call found a fresh slot and went into the scrape all the same
C2_Witness ==
    /\ last.step = "miss" /\ last.force_refresh /\ last.found = "fresh"
    /\ pc[last.call] = Await(last.op)

\* C3: no call returns a cached entry whose age is >= TTL; a call that
\* finds an entry of exactly the TTL's age misses and scrapes again.
C3_NoEntryServedAtOrPastTtl ==
    /\ (last.step = "hit" /\ last.was_cached)
        => last.found \notin {"absent", "at_ttl", "past_ttl"}
    /\ (AtCheck /\ last.found = "at_ttl")
        => last.step = "miss" /\ pc[last.call] = Await(last.op)

\* a non-forced call found an entry of exactly the TTL's age and missed
C3_Witness ==
    /\ last.step = "miss" /\ ~last.force_refresh /\ last.found = "at_ttl"
    /\ now - slot(last.op)[2] = cache_ttl

\* C4: calls may overlap in their scrapes; a slot is always absent or one
\* whole (value, capturedAt) pair that one scrape produced, and whenever a
\* scrape has just completed (in particular once every call has finished) the
\* slot holds the pair of that call, the last to finish.
C4_LastFinishedScrapeOwnsTheSlot ==
    /\ \A op \in Ops :
          \/ slot(op) = None
          \/ /\ Len(slot(op)) = 2
             /\ slot(op)[1] \in {scrape(op, fetched) : fetched \in FetchOutcomes}
             /\ slot(op)[2] \in Times /\ slot(op)[2] <= now
    /\ last.step = "stored"
        => /\ slot(last.op)[1] = last.value
           /\ slot(last.op)[2] = last.at
           /\ pc[last.call] = Idle

\* two calls were suspended in the same scrape at once: the latest step is
\* the completion of one of them, which wrote its pair into the slot, and the
\* other, which went into its scrape before that, is suspended still
C4_Witness ==
    \E p \in Calls :
        /\ last.step = "stored" /\ last.call # p
        /\ pc[p] = Await(last.op)
        /\ slot(last.op) = <<last.value, last.at>>
        /\ last.value # <<>>

\* C5: an empty scrape result is stored like any other, and a non-forced
\* call within the TTL is served that empty list as cached.
C5_EmptyResultIsCached ==
    /\ (last.step = "stored" /\ last.value = <<>>)
        => slot(last.op) = << <<>>, last.at >>
    /\ (AtCheck /\ ~last.force_refresh /\ last.found = "fresh")
        => (slot(last.op)[1] = <<>>
              => last.step = "hit" /\ last.value = <<>> /\ last.was_cached = TRUE)

\* a non-forced call got the empty list from the slot, as cached
C5_Witness ==
    /\ last.step = "hit" /\ last.value = <<>> /\ last.was_cached = TRUE
    /\ slot(last.op) # None /\ slot(last.op)[1] = <<>>

\* the slot of a get_* operation as the step leaves it
slot_after(op) == IF op = "get_categories" THEN categories_cache' ELSE locations_cache'

\* the step is a get_* call's first step on the slot of op, without
\* force_refresh
PlainGetOn(op) ==
    /\ last' # last
    /\ last'.op = op
    /\ last'.step \in {"hit", "miss"}
    /\ ~last'.force_refresh

C27_HitsDoNotRenewTheEntry ==
    [][ /\ (last' # last /\ last'.step = "hit")
            => /\ UNCHANGED <<categories_cache, locations_cache>>
               /\ now < slot(last'.op)[2] + cache_ttl
        /\ \A op \in Ops :
              (slot(op) # None /\ now >= slot(op)[2] + cache_ttl /\ PlainGetOn(op))
              => /\ last'.step = "miss"
                 /\ pc'[last'.call] = Await(op)
      ]_vars

\* an entry written at time 0 was served as a hit, and with the clock at or
\* past the TTL it still carries capturedAt 0
C27_Witness ==
    /\ last.step = "hit" /\ last.found = "fresh"
    /\ slot(last.op)[2] = 0
    /\ now >= cache_ttl
    /\ ~serve_cached(FALSE, slot(last.op))

\* C28: no step of a get_categories call (hit, miss or the store of a
\* refresh) changes the locations slot, and no step of a get_locations call
\* changes the categories slot.
C28_SlotsAreIndependent ==
    [][ /\ (last' # last /\ last'.op = "get_categories")
            => locations_cache' = locations_cache
        /\ (last' # last /\ last'.op = "get_locations")
            => categories_cache' = categories_cache
      ]_vars

\* the categories were refreshed one second before the TTL ran out, and the
\* locations slot still holds its non-empty entry of time 0
C28_Witness ==
    /\ last.op = "get_categories" /\ last.step = "stored"
    /\ categories_cache # None /\ categories_cache[2] = cache_ttl - 1
    /\ locations_cache # None /\ locations_cache[2] = 0
    /\ locations_cache[1] # <<>>

----------------------------------------------------------------------------
(* The source registry: ScraperRegistry.                                   *)

\* how many scraper objects exist per source id
NumInstances == 2
\* how many register calls a run makes
MaxRegisters == 3
\* how many ScraperRegistry objects a run constructs
MaxRegistries == 2

SourceIds == {"jobsbotswana", "careersbw", "indeedbw"}

\* a scraper object: its source_id property and its identity
Scrapers == [source_id : SourceIds, instance : 1..NumInstances]

\* BaseScraper.get_source_info
scraper_source_info(scraper) ==
    [id |-> scraper.source_id,
     supported_filters |-> <<"category", "location", "job_type", "page">>,
     is_active |-> TRUE]

\* key in d, for a dict d held as the insertion-ordered sequence of its items
dict_has(d, key) == \E i \in 1..Len(d) : d[i].key = key

\* a slip: a present key keeps its old value (first registration wins)
dict_set_keep_first(d, key, value) ==
    IF dict_has(d, key) THEN d
    ELSE Append(d, [key |-> key, value |-> value])

\* a slip: a present key is taken out and put back last
dict_set_move_to_end(d, key, value) ==
    Append(SelectSeq(d, LAMBDA item : item.key # key), [key |-> key, value |-> value])

\* a slip: a second item is added for a key that is present
dict_set_keep_both(d, key, value) ==
    Append(d, [key |-> key, value |-> value])

\* d[key] = value: a present key keeps its position, a new key goes last
dict_set(d, key, value) ==
    IF dict_has(d, key)
    THEN [i \in 1..Len(d) |-> IF d[i].key = key THEN [key |-> key, value |-> value]
                              ELSE d[i]]
    ELSE Append(d, [key |-> key, value |-> value])

\* d.get(key)
dict_get(d, key) ==
    IF dict_has(d, key)
    THEN Some(d[CHOOSE i \in 1..Len(d) : d[i].key = key].value)
    ELSE None

\* the module's "scraper_registry = ScraperRegistry()", the first object
scraper_registry == 1

\* the module's "jobs_botswana_scraper = JobsBotswanaScraper()"
jobs_botswana_scraper == [source_id |-> "jobsbotswana", instance |-> 1]

\* the class body has run ("_scrapers: Dict = {}") and scraper_registry has
\* been constructed
InitRegistry ==
    /\ scrapers = <<>>
    /\ registered = <<>>
    /\ registries = <<Registry(None, 0)>>
    /\ via = <<>>
    /\ CacheAtRest
    /\ UrlAtRest /\ PagAtRest /\ ScrapeAtRest

\* self._scrapers: the object's own attribute if it has one, else the class's
self_scrapers(self) ==
    IF registries[self].own_scrapers # None THEN registries[self].own_scrapers[1]
    ELSE scrapers

\* a slip: every ScraperRegistry object starts with a dict of its own
ScraperRegistry_own_dict ==
    /\ Len(registries) < MaxRegistries
    /\ registries' = Append(registries, Registry(Some(<<>>), Len(registered)))
    /\ UNCHANGED <<scrapers, registered, via>>

\* ScraperRegistry(): the class defines no __init__, the new object has no
\* attribute of its own
ScraperRegistry ==
    /\ Len(registries) < MaxRegistries
    /\ registries' = Append(registries, Registry(None, Len(registered)))
    /\ UNCHANGED <<scrapers, registered, via>>

\* self._scrapers[source_id] = scraper, starting from the state (d, rs)
set_item(self, d, rs, source_id, scraper) ==
    IF rs[self].own_scrapers # None
    THEN <<d, [rs EXCEPT ![self].own_scrapers =
                  Some(dict_set(rs[self].own_scrapers[1], source_id, scraper))]>>
    ELSE <<dict_set(d, source_id, scraper), rs>>

\* ScraperRegistry.register(scraper)
register(self, scraper) ==
    /\ Len(registered) < MaxRegisters
    /\ LET source_id == scraper.source_id
           after == set_item(self, scrapers, registries, source_id, scraper)
       IN  scrapers' = after[1] /\ registries' = after[2]
    /\ registered' = Append(registered, scraper)
    /\ via' = Append(via, self)

\* the import of app.scrapers: jobs_botswana.py registers its scraper with
\* scraper_registry as it is loaded, and the package's __init__ registers the
\* same object again
import_app_scrapers ==
    /\ registered = <<>>
    /\ Len(registered) + 2 <= MaxRegisters
    /\ LET source_id == jobs_botswana_scraper.source_id
           first == set_item(scraper_registry, scrapers, registries,
                             source_id, jobs_botswana_scraper)
           second == set_item(scraper_registry, first[1], first[2],
                              source_id, jobs_botswana_scraper)
       IN  scrapers' = second[1] /\ registries' = second[2]
    /\ registered' = registered \o <<jobs_botswana_scraper, jobs_botswana_scraper>>
    /\ via' = via \o <<scraper_registry, scraper_registry>>

\* ScraperRegistry.get(source_id)
get(self, source_id) == dict_get(self_scrapers(self), source_id)

\* ScraperRegistry.get_source_info()
get_source_info(self) ==
    [i \in 1..Len(self_scrapers(self)) |-> scraper_source_info(self_scrapers(self)[i].value)]

\* ScraperRegistry.list_sources()
list_sources(self) == [i \in 1..Len(self_scrapers(self)) |-> self_scrapers(self)[i].key]

NextRegistry ==
    \/ import_app_scrapers /\ UNCHANGED <<cache_vars, url_vars, pag_vars, scrape_vars>>
    \/ ScraperRegistry /\ UNCHANGED <<cache_vars, url_vars, pag_vars, scrape_vars>>
    \/ \E self \in 1..Len(registries), scraper \in Scrapers :
          register(self, scraper) /\ UNCHANGED <<cache_vars, url_vars, pag_vars, scrape_vars>>

SpecRegistry == InitRegistry /\ [][NextRegistry]_vars

\* the register calls made so far that carried source_id, as positions in the
\* history of calls
calls_with(source_id) == {i \in 1..Len(registered) : registered[i].source_id = source_id}

\* the scraper passed to the most recent register call that carried source_id
most_recent(source_id) ==
    registered[CHOOSE i \in calls_with(source_id) : \A j \in calls_with(source_id) : j <= i]

\* the source ids in the order in which each was registered for the first time
RECURSIVE first_registrations(_, _)
first_registrations(calls, seen) ==
    IF calls = <<>> THEN seen
    ELSE first_registrations(Tail(calls),
            IF \E i \in 1..Len(seen) : seen[i] = Head(calls).source_id THEN seen
            ELSE Append(seen, Head(calls).source_id))

\* C6: after any sequence of register calls, get(id) is the scraper passed to
\* the most recent register call whose source_id is id; no key of the registry
\* leads to a scraper registered earlier under the same id; and get of an id
\* never registered is None.
C6_GetReturnsMostRecentRegistration ==
    /\ \A source_id \in SourceIds :
           IF calls_with(source_id) = {} THEN get(scraper_registry, source_id) = None
           ELSE get(scraper_registry, source_id) = Some(most_recent(source_id))
    /\ \A i \in 1..Len(scrapers) : scrapers[i].value = most_recent(scrapers[i].key)

\* an id was registered twice with two different scraper objects and get
\* returns the second, while some other id was never registered
C6_Witness ==
    /\ \E i, j \in 1..Len(registered) :
           /\ i < j
           /\ registered[i].source_id = registered[j].source_id
           /\ registered[i].instance # registered[j].instance
           /\ calls_with(registered[j].source_id) = {i, j}
           /\ get(scraper_registry, registered[j].source_id) = Some(registered[j])
    /\ \E source_id \in SourceIds : calls_with(source_id) = {} /\ get(scraper_registry, source_id) = None

\* C7: after any sequence of register calls, list_sources is the registered
\* source ids, each once, in the order in which the ids were first registered,
\* and get_source_info holds exactly one SourceInfo per registered scraper, in
\* that same order, its id being the source id at the same position.
C7_SourcesListedInRegistrationOrder ==
    /\ list_sources(scraper_registry) = first_registrations(registered, <<>>)
    /\ Len(get_source_info(scraper_registry)) = Len(list_sources(scraper_registry))
    /\ \A i \in 1..Len(list_sources(scraper_registry)) :
           /\ get_source_info(scraper_registry)[i].id = list_sources(scraper_registry)[i]
           /\ get_source_info(scraper_registry)[i] = scraper_source_info(most_recent(list_sources(scraper_registry)[i]))

\* two ids are registered, and the one registered first has been registered
\* again after the other: it still comes first
C7_Witness ==
    /\ Len(list_sources(scraper_registry)) = 2
    /\ Len(registered) = 3
    /\ registered[1].source_id = registered[3].source_id
    /\ registered[2].source_id # registered[1].source_id
    /\ list_sources(scraper_registry) = <<registered[1].source_id, registered[2].source_id>>
    /\ get_source_info(scraper_registry)[1].id = registered[3].source_id

\* self._scrapers as the step leaves it
self_scrapers_after(self) ==
    IF registries'[self].own_scrapers # None THEN registries'[self].own_scrapers[1]
    ELSE scrapers'

\* the step is one register call
OneRegisterCall == Len(registered') = Len(registered) + 1

\* C29: a register call under an id that is already registered puts the new
\* scraper in the id's place and leaves the number of ids, the position of
\* every id and every other id's scraper as they were; list_sources never
\* holds an id twice; and when the import has registered the one scraper
\* twice, list_sources is exactly <<"jobsbotswana">>.
C29_ReRegistrationKeepsPlaceAndCount ==
    /\ [](/\ \A self \in 1..Len(registries) :
               \A i, j \in 1..Len(list_sources(self)) :
                   list_sources(self)[i] = list_sources(self)[j] => i = j
          /\ registered = <<jobs_botswana_scraper, jobs_botswana_scraper>>
               => list_sources(scraper_registry) = <<"jobsbotswana">>)
    /\ [][ OneRegisterCall =>
             LET self == via'[Len(via')]
                 scraper == registered'[Len(registered')]
                 before == self_scrapers(self)
                 after == self_scrapers_after(self)
             IN  dict_has(before, scraper.source_id)
                 => /\ Len(after) = Len(before)
                    /\ \A i \in 1..Len(before) :
                          /\ after[i].key = before[i].key
                          /\ IF before[i].key = scraper.source_id
                             THEN after[i].value = scraper
                             ELSE after[i].value = before[i].value
       ]_vars

\* after the import registered jobs_botswana_scraper twice, another scraper
\* object was registered under "jobsbotswana": it is the one get returns, and
\* list_sources is still the one id
C29_Witness ==
    /\ Len(registered) = 3
    /\ registered[1] = jobs_botswana_scraper /\ registered[2] = jobs_botswana_scraper
    /\ registered[3].source_id = "jobsbotswana"
    /\ registered[3] # jobs_botswana_scraper
    /\ get(scraper_registry, "jobsbotswana") = Some(registered[3])
    /\ list_sources(scraper_registry) = <<"jobsbotswana">>

\* C30: the mapping is the class's and every ScraperRegistry object reads and
\* writes that one mapping: on every object get returns the scraper of the
\* most recent register call of the id, whichever object the call was made
\* on, and list_sources lists every registered id; constructing a
\* ScraperRegistry changes no object's mapping, and the new object sees what
\* the others see.
C30_RegistryMappingIsShared ==
    /\ [](\A self \in 1..Len(registries) :
              /\ \A source_id \in SourceIds :
                    IF calls_with(source_id) = {} THEN get(self, source_id) = None
                    ELSE get(self, source_id) = Some(most_recent(source_id))
              /\ list_sources(self) = first_registrations(registered, <<>>))
    /\ [][ Len(registries') > Len(registries) =>
              /\ \A self \in 1..Len(registries) :
                    self_scrapers_after(self) = self_scrapers(self)
              /\ self_scrapers_after(Len(registries')) = self_scrapers(scraper_registry)
       ]_vars

\* a scraper was registered on one ScraperRegistry object; another object,
\* constructed after that call, returns it from get and lists its id
C30_Witness ==
    \E i \in 1..Len(registered), self \in 1..Len(registries) :
        /\ via[i] # self
        /\ registries[self].constructed_after >= i
        /\ calls_with(registered[i].source_id) = {i}
        /\ get(self, registered[i].source_id) = Some(registered[i])
        /\ \E k \in 1..Len(list_sources(self)) :
               list_sources(self)[k] = registered[i].source_id

----------------------------------------------------------------------------
(* The listing URL builder: JobsBotswanaScraper._build_listing_url.        *)

\* the largest page number asked for
MaxPage == 11

base_url == "https://jobsbotswana.info"

\* a slip: the test "is not None" where the code tests the truth value
truthy_str_not_none(x) == x # None

\* bool(x) of an Optional[str]: None and "" are falsy
truthy_str(x) == x # None /\ x[1] # ""

\* f"{page}"
str(n) == ToString(n)

build_listing_url(page, category, location, job_type) ==
    LET base == base_url
    IN  IF truthy_str(category) /\ ~truthy_str(location) /\ ~truthy_str(job_type)
        THEN IF page = 1
             THEN base \o "/job-category/" \o category[1] \o "/"
             ELSE base \o "/job-category/" \o category[1] \o "/page/" \o str(page) \o "/"
        ELSE IF truthy_str(location) /\ ~truthy_str(category) /\ ~truthy_str(job_type)
        THEN IF page = 1
             THEN base \o "/job-location/" \o location[1] \o "/"
             ELSE base \o "/job-location/" \o location[1] \o "/page/" \o str(page) \o "/"
        ELSE IF truthy_str(job_type) /\ ~truthy_str(category) /\ ~truthy_str(location)
        THEN IF page = 1
             THEN base \o "/job-type/" \o job_type[1] \o "/"
             ELSE base \o "/job-type/" \o job_type[1] \o "/page/" \o str(page) \o "/"
        ELSE LET path == IF page = 1 THEN base \o "/jobs/"
                         ELSE base \o "/jobs/page/" \o str(page) \o "/"
                 params ==
                     (IF truthy_str(category) THEN <<"category=" \o category[1]>> ELSE <<>>)
                     \o (IF truthy_str(location) THEN <<"location=" \o location[1]>> ELSE <<>>)
                     \o (IF truthy_str(job_type) THEN <<"type=" \o job_type[1]>> ELSE <<>>)
             IN  IF params # <<>> THEN path \o "?" \o join("&", params) ELSE path

\* the filter values a request may carry: absent, empty, or a slug
CategoryArgs == {None, Some(""), Some("nurse"), Some("it?x=1")}
LocationArgs == {None, Some(""), Some("gaborone")}
JobTypeArgs == {None, Some(""), Some("full-time")}

UrlArgs == [page : 1..MaxPage, category : CategoryArgs, location : LocationArgs,
            job_type : JobTypeArgs]

InitUrl ==
    /\ url_args \in {Some(a) : a \in UrlArgs}
    /\ url = None
    /\ CacheAtRest
    /\ RegistryAtRest /\ PagAtRest /\ ScrapeAtRest

\* one call of _build_listing_url on the drawn arguments
BuildUrl ==
    /\ url = None
    /\ LET a == url_args[1]
       IN  url' = Some(build_listing_url(a.page, a.category, a.location, a.job_type))
    /\ UNCHANGED url_args

NextUrl == BuildUrl /\ UNCHANGED <<cache_vars, registry_vars, pag_vars, scrape_vars>>

SpecUrl == InitUrl /\ [][NextUrl]_vars

\* a filter is set when it was given and is not the empty string
IsSet(x) == x # None /\ x # Some("")

Filters == {"category", "location", "job_type"}

\* the filters set in the arguments a
SetFilters(a) == {f \in Filters : IsSet(a[f])}

\* <dimension> of a filter: the name it has in paths and in query parameters
Dimension(f) == IF f = "job_type" THEN "type" ELSE f

\* "" for page 1, "page/<n>/" for page n > 1
PageSegment(page) == IF page = 1 THEN "" ELSE "page/" \o ToString(page) \o "/"

\* base/job-<dimension>/<slug>/ or base/job-<dimension>/<slug>/page/<n>/
SingleFilterUrl(a) ==
    LET f == CHOOSE g \in SetFilters(a) : TRUE
    IN  "https://jobsbotswana.info/job-" \o Dimension(f) \o "/" \o a[f][1] \o "/"
            \o PageSegment(a.page)

\* C8: for every input with exactly one of category, location, job_type set
\* (given and not empty), the URL is base/job-<dimension>/<slug>/ for page 1
\* and base/job-<dimension>/<slug>/page/<n>/ for page n > 1, with <dimension>
\* category, location or type; it ends in a slash, and it contains no '?'
\* unless the slug itself contains one.
C8_SingleFilterUrlIsCleanPath ==
    (url # None /\ Cardinality(SetFilters(url_args[1])) = 1)
        => LET a == url_args[1]
               slug == a[CHOOSE g \in SetFilters(a) : TRUE][1]
           IN  /\ url[1] = SingleFilterUrl(a)
               /\ EndsWith(url[1], "/")
               /\ ~Contains(slug, "?") => ~Contains(url[1], "?")

\* C8 as the specification words it: the URL of every single-filter input
\* contains no '?'
C8_SingleFilterUrlHasNoQuestionMark ==
    (url # None /\ Cardinality(SetFilters(url_args[1])) = 1)
        => /\ url[1] = SingleFilterUrl(url_args[1])
           /\ EndsWith(url[1], "/")
           /\ ~Contains(url[1], "?")

\* the location alone is set, the other two being absent one way each, and
\* page 2 is asked for
C8_Witness ==
    /\ url_args = Some([page |-> 2, category |-> None, location |-> Some("gaborone"),
                        job_type |-> Some("")])
    /\ url = Some("https://jobsbotswana.info/job-location/gaborone/page/2/")

\* the query parameters of the filters set, in the order category, location,
\* type
QueryParams(a) ==
    (IF IsSet(a.category) THEN <<"category=" \o a.category[1]>> ELSE <<>>)
    \o (IF IsSet(a.location) THEN <<"location=" \o a.location[1]>> ELSE <<>>)
    \o (IF IsSet(a.job_type) THEN <<"type=" \o a.job_type[1]>> ELSE <<>>)

\* two or three parameters with '&' between them
Ampersanded(params) ==
    IF Len(params) = 2 THEN params[1] \o "&" \o params[2]
    ELSE params[1] \o "&" \o params[2] \o "&" \o params[3]

\* C9: for every input with no filter or with two or more filters set, the URL
\* is base/jobs/ for page 1, with no /page/ segment at all, and
\* base/jobs/page/<n>/ for page n > 1; with no filter nothing follows and there
\* is no '?'; with two or more filters '?' follows and then one parameter per
\* filter set, in the order category=, location=, type=, joined by '&'.
C9_JobsUrlCarriesFiltersAsQuery ==
    (url # None /\ Cardinality(SetFilters(url_args[1])) # 1)
        => LET a == url_args[1]
               path == "https://jobsbotswana.info/jobs/" \o PageSegment(a.page)
           IN  /\ SetFilters(a) = {} => url[1] = path /\ ~Contains(url[1], "?")
               /\ SetFilters(a) # {}
                    => url[1] = path \o "?" \o Ampersanded(QueryParams(a))
               /\ a.page = 1 => ~Contains(url[1], "/page/")
               /\ StartsWith(url[1], path)

\* all three filters are set and page 2 is asked for
C9_Witness ==
    /\ url_args = Some([page |-> 2, category |-> Some("nurse"),
                        location |-> Some("gaborone"), job_type |-> Some("full-time")])
    /\ url = Some("https://jobsbotswana.info/jobs/page/2/"
                      \o "?category=nurse&location=gaborone&type=full-time")

----------------------------------------------------------------------------
(* The pagination resolver: JobsBotswanaScraper._parse_pagination.         *)

\* re.search(r'of\s+(\d+)\s+jobs?', text, re.IGNORECASE): None or the groups
search_of_jobs(text) ==
    LET matches(i) ==
            /\ LitAt(text, i, "of", TRUE)
            /\ LET a == i + 2
                   b == SpacesEnd(text, a)
                   c == DigitsEnd(text, b)
                   d == SpacesEnd(text, c)
               IN  b > a /\ c > b /\ d > c /\ LitAt(text, d, "job", TRUE)
        starts == {i \in 1..Len(text) : matches(i)}
    IN  IF starts = {} THEN None
        ELSE LET i == CHOOSE k \in starts : \A j \in starts : k <= j
                 b == SpacesEnd(text, i + 2)
             IN  Some(SubSeq(text, b, DigitsEnd(text, b) - 1))

\* re.search(r'Showing\s+(\d+)[–\-](\d+)', text): None or the groups
search_showing(text) ==
    LET matches(i) ==
            /\ LitAt(text, i, "Showing", FALSE)
            /\ LET a == i + 7
                   b == SpacesEnd(text, a)
                   c == DigitsEnd(text, b)
               IN  /\ b > a /\ c > b /\ c <= Len(text)
                   /\ CharAt(text, c) \in {EnDash, "-"}
                   /\ DigitsEnd(text, c + 1) > c + 1
        starts == {i \in 1..Len(text) : matches(i)}
    IN  IF starts = {} THEN None
        ELSE LET i == CHOOSE k \in starts : \A j \in starts : k <= j
                 b == SpacesEnd(text, i + 7)
                 c == DigitsEnd(text, b)
             IN  <<SubSeq(text, b, c - 1), SubSeq(text, c + 1, DigitsEnd(text, c + 1) - 1)>>

Max(a, b) == IF a >= b THEN a ELSE b

RECURSIVE max_page_label_last(_, _)
\* a slip: the last numeric label taken, not the largest
max_page_label_last(labels, total_pages) ==
    IF labels = <<>> THEN [returned |-> total_pages]
    ELSE LET text == Head(labels)
         IN  IF isdigit(text) /\ int_raises(text) THEN ValueError
             ELSE max_page_label_last(Tail(labels),
                    IF isdigit(text) THEN int(text) ELSE total_pages)

RECURSIVE max_page_label(_, _)
\* the loop over the page-numbers elements: total_pages after it, the largest
\* numeric label, or ValueError when int(text) raises on a label that passed
\* isdigit()
max_page_label(labels, total_pages) ==
    IF labels = <<>> THEN [returned |-> total_pages]
    ELSE LET text == Head(labels)
         IN  IF isdigit(text) /\ int_raises(text) THEN ValueError
             ELSE max_page_label(Tail(labels),
                    IF isdigit(text) THEN Max(total_pages, int(text)) ELSE total_pages)

\* a slip: the last page counted as having a next page
pagination_info_next_on_last(current_page, total_pages, total_jobs, jobs_per_page) ==
    LET has_next == current_page <= total_pages
        has_previous == current_page > 1
    IN  [current_page |-> current_page,
         total_pages |-> total_pages,
         total_jobs |-> total_jobs,
         jobs_per_page |-> jobs_per_page,
         has_next |-> has_next,
         has_previous |-> has_previous,
         next_page |-> IF has_next THEN Some(current_page + 1) ELSE None,
         previous_page |-> IF has_previous THEN Some(current_page - 1) ELSE None]

\* the PaginationInfo built from the resolved numbers
pagination_info(current_page, total_pages, total_jobs, jobs_per_page) ==
    LET has_next == current_page < total_pages
        has_previous == current_page > 1
    IN  [current_page |-> current_page,
         total_pages |-> total_pages,
         total_jobs |-> total_jobs,
         jobs_per_page |-> jobs_per_page,
         has_next |-> has_next,
         has_previous |-> has_previous,
         next_page |-> IF has_next THEN Some(current_page + 1) ELSE None,
         previous_page |-> IF has_previous THEN Some(current_page - 1) ELSE None]

\* _parse_pagination(soup, current_page); soup is reduced to the text of
\* div.noo-job-list-count (None when absent) and the texts of the
\* .page-numbers elements of div.pagination (None when absent); the result
\* is the PaginationInfo, or ValueError when the call raises
parse_pagination(soup, current_page) ==
    LET of_match == IF soup.count_text = None THEN None
                    ELSE search_of_jobs(soup.count_text[1])
        range_match == IF soup.count_text = None THEN None
                       ELSE search_showing(soup.count_text[1])
        total_jobs == IF of_match # None THEN int(of_match[1]) ELSE 0
        jobs_per_page == IF range_match # None
                         THEN int(range_match[2]) - int(range_match[1]) + 1
                         ELSE 15
        looped == IF soup.page_numbers = None THEN [returned |-> 1]
                  ELSE max_page_label(soup.page_numbers[1], 1)
        from_links == looped.returned
        total_pages == IF total_jobs > 0 /\ jobs_per_page > 0
                       THEN Max(from_links,
                                (total_jobs + jobs_per_page - 1) \div jobs_per_page)
                       ELSE from_links
    IN  IF looped = ValueError THEN ValueError
        ELSE pagination_info(current_page, total_pages, total_jobs, jobs_per_page)

\* the count texts and the pagination controls a page may carry
CountTexts ==
    {None,
     Some("Showing 1-15 of 42 jobs"),
     Some("Showing 16~30 of 42 jobs"),
     Some("Showing 31-42 of 42 jobs"),
     Some("Showing 1-1 of 1 job"),
     Some("Showing 9-3 OF 7 Jobs"),
     Some("No jobs found")}

PageNumbers ==
    {None,
     Some(<<>>),
     Some(<<"1", "2", "3", "Next">>),
     Some(<<"1", "2", "Next">>),
     Some(<<"Previous", "1", "...", "12", "">>),
     Some(<<"1", "3", "2">>),
     Some(<<"1", "^">>)}

PagArgs == [soup : [count_text : CountTexts, page_numbers : PageNumbers],
            current_page : 1..MaxPage]

InitPagination ==
    /\ pag_args \in {Some(a) : a \in PagArgs}
    /\ pag = None
    /\ CacheAtRest
    /\ RegistryAtRest /\ UrlAtRest /\ ScrapeAtRest

\* one call of _parse_pagination on the drawn arguments
ParsePagination ==
    /\ pag = None
    /\ pag' = Some(parse_pagination(pag_args[1].soup, pag_args[1].current_page))
    /\ UNCHANGED pag_args

NextPagination == ParsePagination /\ UNCHANGED <<cache_vars, registry_vars, url_vars, scrape_vars>>

SpecPagination == InitPagination /\ [][NextPagination]_vars

\* C10: for every document and every requested page, the output has
\* has_next = (current_page < total_pages), has_previous = (current_page > 1),
\* next_page present exactly when has_next and then current_page + 1,
\* previous_page present exactly when has_previous and then current_page - 1.
C10_NavigationFlagsFollowPageNumbers ==
    (pag # None /\ pag[1] # ValueError)
        => LET info == pag[1]
           IN  /\ info.current_page = pag_args[1].current_page
               /\ info.has_next = (info.current_page < info.total_pages)
               /\ info.has_previous = (info.current_page > 1)
               /\ (info.next_page # None) = info.has_next
               /\ info.has_next => info.next_page = Some(info.current_page + 1)
               /\ (info.previous_page # None) = info.has_previous
               /\ info.has_previous => info.previous_page = Some(info.current_page - 1)

\* the middle page of three, resolved from the count text alone: there is a
\* next page and a previous page
C10_Witness ==
    /\ pag # None
    /\ pag_args[1].soup.count_text = Some("Showing 16~30 of 42 jobs")
    /\ pag_args[1].soup.page_numbers = None
    /\ pag[1].current_page = 2 /\ pag[1].total_pages = 3
    /\ pag[1].has_next /\ pag[1].next_page = Some(3)
    /\ pag[1].has_previous /\ pag[1].previous_page = Some(1)

\* the numbers shown by the numeric labels of the pagination controls
LabelNumbers(page_numbers) ==
    IF page_numbers = None THEN {}
    ELSE {int(page_numbers[1][i]) :
            i \in {j \in 1..Len(page_numbers[1]) : ~int_raises(page_numbers[1][j])}}

\* ceil(a / b) for a >= 0, b > 0: the least k with k * b >= a
Ceil(a, b) == CHOOSE k \in 0..a : k * b >= a /\ \A j \in 0..(k - 1) : j * b < a

\* the largest element of a non-empty set of integers
SetMax(S) == CHOOSE m \in S : \A x \in S : x <= m

\* C11: total_pages is the maximum of 1, every numeric page label of the
\* pagination controls and, only when total_jobs > 0 and jobs_per_page > 0,
\* ceil(total_jobs / jobs_per_page); the count text "Showing 1-15 of 42 jobs"
\* with no pagination controls gives jobs_per_page 15, total_jobs 42 and
\* total_pages 3.
C11_TotalPagesIsMaxOfLabelsAndCeil ==
    (pag # None /\ pag[1] # ValueError)
        => LET info == pag[1]
               soup == pag_args[1].soup
               calculated == IF info.total_jobs > 0 /\ info.jobs_per_page > 0
                             THEN {Ceil(info.total_jobs, info.jobs_per_page)}
                             ELSE {}
           IN  /\ info.total_pages
                    = SetMax({1} \cup LabelNumbers(soup.page_numbers) \cup calculated)
               /\ (soup.count_text = Some("Showing 1-15 of 42 jobs")
                        /\ soup.page_numbers = None)
                    => /\ info.jobs_per_page = 15
                       /\ info.total_jobs = 42
                       /\ info.total_pages = 3

\* the count text "Showing 1-15 of 42 jobs" was resolved with pagination
\* controls that under-report the last page: 3 pages, not the 2 of the labels
C11_Witness ==
    /\ pag # None /\ pag[1] # ValueError
    /\ pag_args[1].soup.count_text = Some("Showing 1-15 of 42 jobs")
    /\ pag_args[1].soup.page_numbers = Some(<<"1", "2", "Next">>)
    /\ pag[1].total_jobs = 42 /\ pag[1].jobs_per_page = 15 /\ pag[1].total_pages = 3

\* C12: for every document and every requested page >= 1 the resolver returns
\* (it does not raise), and its output has total_pages >= 1, total_jobs >= 0
\* and jobs_per_page >= 0, jobs_per_page being B - A + 1 for a "Showing A-B"
\* range in the count text and 15 when there is none.
C12_ResolverNeverFailsAndNumbersAreInRange ==
    pag # None
        => /\ pag[1] # ValueError
           /\ pag[1].total_pages >= 1
           /\ pag[1].total_jobs >= 0
           /\ pag[1].jobs_per_page >= 0
           /\ LET text == pag_args[1].soup.count_text
                   range == IF text = None THEN None ELSE search_showing(text[1])
               IN  pag[1].jobs_per_page
                     = IF range = None THEN 15 ELSE int(range[2]) - int(range[1]) + 1

----------------------------------------------------------------------------
(* Listing entries: the article elements of a listing page and the         *)
(* extraction of their fields.                                             *)

\* An article element, reduced to what the extraction reads:
\*   classes       the article's class list
\*   within        the classes of the container divs the article lies in
\*   h3s           its h3 elements in document order, each
\*                 [loop_item_title, a, text]: whether it has the class
\*                 loop-item-title, its first link (None or
\*                 Some([text, href])) and its own stripped text
\*   data_title, data_url          the attributes, None when absent
\*   details_link, btn_primary     the first a.job-details-link and
\*                 a.btn-primary, None or Some(href), href None when absent
\*   job_type_span, location_span  the first span.job-type and
\*                 span.job-location, None or Some(the stripped text of the
\*                 innermost element the extraction unwraps it to)
\*   category_span the first span.job-category, None or
\*                 Some([links, text]): the texts of its links and its own
\*                 text
Article(classes, within, h3s, data_title, data_url, details_link, btn_primary) ==
    [classes |-> classes, within |-> within, h3s |-> h3s,
     data_title |-> data_title, data_url |-> data_url,
     details_link |-> details_link, btn_primary |-> btn_primary,
     job_type_span |-> None, location_span |-> None, category_span |-> None]

\* the article with the three labelled spans given
with_spans(article, job_type_span, location_span, category_span) ==
    [article EXCEPT !.job_type_span = job_type_span,
                    !.location_span = location_span,
                    !.category_span = category_span]

H3(loop_item_title, a, text) == [loop_item_title |-> loop_item_title, a |-> a, text |-> text]
A(text, href) == [text |-> text, href |-> href]

\* c in article.get('class', [])
has_class(article, c) == \E i \in 1..Len(article.classes) : article.classes[i] = c

\* article.find('h3', class_='loop-item-title'): None or Some(the first one)
find_title_h3(article) ==
    LET hits == {i \in 1..Len(article.h3s) : article.h3s[i].loop_item_title}
    IN  IF hits = {} THEN None
        ELSE Some(article.h3s[CHOOSE i \in hits : \A j \in hits : i <= j])

\* article.find('h3'): None or Some(the first one)
find_h3(article) == IF article.h3s = <<>> THEN None ELSE Some(article.h3s[1])

\* the text of an h3: that of its link when it has one, else its own
h3_title(h3) == IF h3.a # None THEN h3.a[1].text ELSE h3.text

\* a slip: an empty h3 text falls through to the data-title attribute
extract_title_skipping_empty(article) ==
    LET title_elem == find_title_h3(article)
        any_h3 == find_h3(article)
    IN  IF title_elem # None /\ h3_title(title_elem[1]) # "" THEN Some(h3_title(title_elem[1]))
        ELSE IF any_h3 # None /\ h3_title(any_h3[1]) # "" THEN Some(h3_title(any_h3[1]))
        ELSE IF truthy_str(article.data_title) THEN article.data_title
        ELSE None

\* _extract_title(article): None or Some(title)
extract_title(article) ==
    LET title_elem == find_title_h3(article)
        any_h3 == find_h3(article)
    IN  IF title_elem # None THEN Some(h3_title(title_elem[1]))
        ELSE IF any_h3 # None THEN Some(h3_title(any_h3[1]))
        ELSE IF truthy_str(article.data_title) THEN article.data_title
        ELSE None

\* link and link.get('href'), for the first link of an h3
h3_href(h3) == IF h3.a # None /\ truthy_str(h3.a[1].href) THEN h3.a[1].href ELSE None

\* _extract_url(article): None or Some(url)
extract_url(article) ==
    LET title_elem == find_title_h3(article)
        any_h3 == find_h3(article)
    IN  IF truthy_str(article.data_url) THEN article.data_url
        ELSE IF title_elem # None /\ h3_href(title_elem[1]) # None THEN h3_href(title_elem[1])
        ELSE IF any_h3 # None /\ h3_href(any_h3[1]) # None THEN h3_href(any_h3[1])
        ELSE IF article.details_link # None /\ truthy_str(article.details_link[1])
             THEN article.details_link[1]
        ELSE IF article.btn_primary # None /\ truthy_str(article.btn_primary[1])
             THEN article.btn_primary[1]
        ELSE None

\* the classes of the article that start with prefix, in class-list order
classes_with(article, prefix) ==
    SelectSeq(article.classes, LAMBDA cls : StartsWith(cls, prefix))

\* h3.get_text(strip=True): the text of its link and its text outside the link
h3_get_text(h3) == (IF h3.a # None THEN h3.a[1].text ELSE "") \o h3.text

\* the separators between job title and company, in the order they are tried
Separators == <<" " \o EnDash \o " ", " - ", " " \o EmDash \o " ", EnDash, "-">>

\* a slip: the separators are tried from the last to the first
company_from_title_reversed(title_text) ==
    LET found == {i \in 1..Len(Separators) : Contains(title_text, Separators[i])}
    IN  IF found = {} THEN None
        ELSE LET separator == Separators[CHOOSE i \in found : \A j \in found : i >= j]
                 parts == split(title_text, separator)
             IN  Some(strip(parts[Len(parts)]))

\* the loop over the separators, in _extract_company and again in
\* scrape_job_detail: None or Some(the stripped last part)
company_from_title(title_text) ==
    LET found == {i \in 1..Len(Separators) : Contains(title_text, Separators[i])}
    IN  IF found = {} THEN None
        ELSE LET separator == Separators[CHOOSE i \in found : \A j \in found : i <= j]
                 parts == split(title_text, separator)
             IN  Some(strip(parts[Len(parts)]))

\* a slip: the title is tried before the classes
extract_company_title_first(article) ==
    LET marked == classes_with(article, "job_company-")
        title_elem == find_title_h3(article)
        from_title == IF title_elem # None THEN company_from_title(h3_get_text(title_elem[1]))
                      ELSE None
    IN  IF from_title # None THEN from_title
        ELSE IF marked # <<>>
        THEN Some(title_case(replace(replace(marked[1], "job_company-", ""),
                                     "-job-vacancies", "")))
        ELSE None

\* _extract_company(article): None or Some(company)
extract_company(article) ==
    LET marked == classes_with(article, "job_company-")
        title_elem == find_title_h3(article)
    IN  IF marked # <<>>
        THEN Some(title_case(replace(replace(marked[1], "job_company-", ""),
                                     "-job-vacancies", "")))
        ELSE IF title_elem # None THEN company_from_title(h3_get_text(title_elem[1]))
        ELSE None

\* _extract_job_type(article): None or Some(job type)
extract_job_type(article) ==
    LET marked == classes_with(article, "job_type-")
    IN  IF article.job_type_span # None THEN article.job_type_span
        ELSE IF marked # <<>> THEN Some(title_case(replace(marked[1], "job_type-", "")))
        ELSE None

\* _extract_location(article): None or Some(location)
extract_location(article) ==
    LET marked == classes_with(article, "job_location-")
    IN  IF article.location_span # None THEN article.location_span
        ELSE IF marked # <<>> THEN Some(capitalize(replace(marked[1], "job_location-", "")))
        ELSE None

\* _extract_category(article): None or Some(category)
extract_category(article) ==
    LET marked == classes_with(article, "job_category-")
        categories == [i \in 1..Len(marked) |->
                          title_case(replace(marked[i], "job_category-", ""))]
    IN  IF article.category_span # None
        THEN IF article.category_span[1].links # <<>>
             THEN Some(join(" - ", article.category_span[1].links))
             ELSE Some(article.category_span[1].text)
        ELSE IF categories # <<>> THEN Some(join(" - ", categories))
        ELSE None

\* JobsBotswanaScraper.source_name
source_name == "Jobs Botswana"

\* a slip: only the title is required
parse_job_article_title_only(article) ==
    LET title == extract_title(article)
        href == extract_url(article)
    IN  IF ~truthy_str(title) THEN None
        ELSE Some([title |-> title[1], url |-> IF href = None THEN "" ELSE href[1],
                   company |-> extract_company(article),
                   job_type |-> extract_job_type(article),
                   location |-> extract_location(article),
                   category |-> extract_category(article),
                   is_closed |-> has_class(article, "closed-job"),
                   source |-> source_name])

\* _parse_job_article(article): None or Some(the JobListing), of which the
\* model carries title, url, company, job_type, location, category,
\* is_closed and source
parse_job_article(article) ==
    LET title == extract_title(article)
        href == extract_url(article)
    IN  IF ~truthy_str(title) THEN None
        ELSE IF ~truthy_str(href) THEN None
        ELSE Some([title |-> title[1], url |-> href[1],
                   company |-> extract_company(article),
                   job_type |-> extract_job_type(article),
                   location |-> extract_location(article),
                   category |-> extract_category(article),
                   is_closed |-> has_class(article, "closed-job"),
                   source |-> source_name])

----------------------------------------------------------------------------
(* The scrape operations: scrape_listings, scrape_job_detail and           *)
(* get_job_types (scrape_categories and scrape_locations are above).       *)

\* what fetch_page raises, with the text str(e) gives
FetchFailures ==
    {[raised |-> "HTTPStatusError", message |-> "Server error '503 Service Unavailable'"],
     [raised |-> "ConnectTimeout", message |-> ""]}

\* a slip: only the first strategy, article.noo_job
locate_articles_primary_only(soup) ==
    SelectSeq(soup.articles, LAMBDA a : has_class(a, "noo_job"))

\* the five strategies that find the article elements of a listing page; a
\* page is [articles, containers, count_text, page_numbers]: its article
\* elements in document order, the classes of the container divs it has, and
\* what the pagination resolver reads
locate_articles(soup) ==
    LET strategy1 == SelectSeq(soup.articles, LAMBDA a : has_class(a, "noo_job"))
        strategy2 == SelectSeq(soup.articles, LAMBDA a : has_class(a, "loadmore-item"))
        strategy3 == IF "posts-loop-content" \in soup.containers
                     THEN SelectSeq(soup.articles, LAMBDA a : "posts-loop-content" \in a.within)
                     ELSE <<>>
        strategy4 == IF "noo-job-list-row" \in soup.containers
                     THEN SelectSeq(soup.articles, LAMBDA a : "noo-job-list-row" \in a.within)
                     ELSE <<>>
        strategy5 == soup.articles
    IN  IF strategy1 # <<>> THEN strategy1
        ELSE IF strategy2 # <<>> THEN strategy2
        ELSE IF strategy3 # <<>> THEN strategy3
        ELSE IF strategy4 # <<>> THEN strategy4
        ELSE strategy5

\* the loop over the articles: the listings of those that parse, in order
RECURSIVE parse_articles(_)
parse_articles(articles) ==
    IF articles = <<>> THEN <<>>
    ELSE LET job == parse_job_article(Head(articles))
         IN  (IF job # None THEN <<job[1]>> ELSE <<>>) \o parse_articles(Tail(articles))

\* the filters_applied dict, as its items in insertion order
filters_applied(category, location, job_type) ==
    (IF truthy_str(category) THEN << <<"category", category[1]>> >> ELSE <<>>)
    \o (IF truthy_str(location) THEN << <<"location", location[1]>> >> ELSE <<>>)
    \o (IF truthy_str(job_type) THEN << <<"job_type", job_type[1]>> >> ELSE <<>>)

\* a slip: the fetch error leaves scrape_listings
listings_failure_raising(page, category, location, job_type, e) == e

\* the envelope returned when the fetch raised e
listings_failure(page, category, location, job_type, e) ==
    [success |-> FALSE,
     message |-> "Failed to fetch page: " \o e.message,
     data |-> <<>>,
     pagination |-> [current_page |-> page, total_pages |-> 0, total_jobs |-> 0,
                     jobs_per_page |-> 0, has_next |-> FALSE, has_previous |-> FALSE,
                     next_page |-> None, previous_page |-> None],
     filters_applied |-> filters_applied(category, location, job_type),
     source |-> source_name]

\* scrape_listings(page, category, location, job_type), the fetch having
\* given `fetched`: the JobListingsResponse, or the exception that leaves the
\* call
scrape_listings(page, category, location, job_type, fetched) ==
    IF fetched \in FetchFailures
    THEN listings_failure(page, category, location, job_type, fetched)
    ELSE LET soup == fetched
             articles == locate_articles(soup)
             jobs == parse_articles(articles)
             pagination == parse_pagination(soup, page)
         IN  IF pagination = ValueError THEN ValueError
             ELSE [success |-> TRUE,
                   message |-> "Successfully fetched " \o ToString(Len(jobs)) \o " jobs",
                   data |-> jobs,
                   pagination |-> pagination,
                   filters_applied |-> filters_applied(category, location, job_type),
                   source |-> source_name]

\* the length a description is cut to
description_limit == 1000

\* paragraphs[:n]
first_n(xs, n) == SubSeq(xs, 1, IF Len(xs) < n THEN Len(xs) ELSE n)

\* a slip: the cut description gets no "..."
extract_description_without_ellipsis(soup) ==
    IF soup.content = None THEN None
    ELSE LET paragraphs == first_n(soup.content[1], 5)
             description == join(" ", paragraphs)
         IN  Some(IF Len(description) > description_limit
                  THEN SubSeq(description, 1, description_limit)
                  ELSE description)

\* the description of scrape_job_detail: None without a content container,
\* else Some(the first 5 paragraph texts joined, cut when too long)
extract_description(soup) ==
    IF soup.content = None THEN None
    ELSE LET paragraphs == first_n(soup.content[1], 5)
             description == join(" ", paragraphs)
         IN  Some(IF Len(description) > description_limit
                  THEN SubSeq(description, 1, description_limit) \o "..."
                  ELSE description)

\* a slip: the fetch error leaves scrape_job_detail
scrape_job_detail_propagating(job_url, fetched) ==
    IF fetched \in FetchFailures THEN fetched
    ELSE LET soup == fetched
             title_elem == IF soup.h1_entry_title # None THEN soup.h1_entry_title
                           ELSE soup.h1
             title == IF title_elem # None THEN title_elem ELSE None
         IN  IF ~truthy_str(title) THEN None
             ELSE Some([title |-> title[1], url |-> job_url,
                        company |-> company_from_title(title[1]),
                        description |-> extract_description(soup),
                        is_closed |-> soup.job_closed, source |-> source_name])

\* scrape_job_detail(job_url), the fetch having given `fetched`: None or
\* Some(the JobListing), of which the model carries title, url, company,
\* description, is_closed and source.  A detail page is [h1_entry_title, h1,
\* job_closed, content]: the stripped text of the first h1.entry-title and of
\* the first h1 (None when absent), whether a div.job-closed is there, and
\* the stripped texts of the p elements of the content container
\* (div.entry-content, else div.job-content; None when there is neither).
scrape_job_detail(job_url, fetched) ==
    IF fetched \in FetchFailures THEN None
    ELSE LET soup == fetched
             title_elem == IF soup.h1_entry_title # None THEN soup.h1_entry_title
                           ELSE soup.h1
             title == IF title_elem # None THEN title_elem ELSE None
         IN  IF ~truthy_str(title) THEN None
             ELSE Some([title |-> title[1], url |-> job_url,
                        company |-> company_from_title(title[1]),
                        description |-> extract_description(soup),
                        is_closed |-> soup.job_closed, source |-> source_name])

JobType(slug, name) == [slug |-> slug, name |-> name, count |-> 0]

\* get_job_types()
get_job_types ==
    <<JobType("full-time", "Full Time"),
      JobType("contract", "Contract"),
      JobType("part-time", "Part Time"),
      JobType("temporary", "Temporary"),
      JobType("internship", "Internship")>>

\* how many article elements a listing page holds at most
MaxArticles == 2
\* how many items a sidebar widget holds at most
MaxItems == 3

\* the sequences over S of length at most n
SeqsUpTo(S, n) == UNION {[1..k -> S] : k \in 0..n}

TitleLink == A("Nurse - Acme", Some("https://jobsbotswana.info/jobs/nurse-acme/"))

\* article elements: with title and url, with one of the two, with neither,
\* and with the classes and containers the five strategies look for
NooBoth == Article(<<"noo_job", "loadmore-item">>, {"posts-loop-content"},
                   <<H3(TRUE, Some(TitleLink), "")>>, None, None, None, None)
NooNoTitle == Article(<<"noo_job">>, {},
                      <<H3(TRUE, Some(A("", Some("https://jobsbotswana.info/jobs/x/"))), "")>>,
                      Some("Untitled"), None, None, None)
NooNoUrl == Article(<<"noo_job", "closed-job">>, {},
                    <<H3(FALSE, None, "Driver")>>, None, Some(""), Some(None), None)
NooNeither == Article(<<"noo_job">>, {}, <<>>, None, None, None, None)
NooData == Article(<<"post-7", "noo_job">>, {}, <<>>,
                   Some("Teacher"), Some("https://jobsbotswana.info/jobs/teacher/"), None, None)
LoadmoreBoth == Article(<<"loadmore-item">>, {}, <<H3(FALSE, Some(A("Clerk", None)), "")>>,
                        None, None, None, Some(Some("https://jobsbotswana.info/jobs/clerk/")))
LoopBoth == Article(<<>>, {"posts-loop-content"},
                    <<H3(FALSE, None, "Cook"), H3(TRUE, Some(TitleLink), "")>>,
                    None, None, None, None)
RowBoth == Article(<<>>, {"noo-job-list-row"}, <<H3(FALSE, Some(TitleLink), "")>>,
                   None, None, None, None)
BareBoth == Article(<<>>, {}, <<H3(FALSE, None, "Guard")>>, None, None,
                    Some(Some("https://jobsbotswana.info/jobs/guard/")), None)

Articles == {NooBoth, NooNoTitle, NooNoUrl, NooNeither, NooData,
             LoadmoreBoth, LoopBoth, RowBoth, BareBoth}

\* an article.noo_job with a heading link, the data-title "Untitled", the
\* given further classes and the given labelled spans
Entry(classes, title, spans) ==
    with_spans(
        Article(<<"noo_job">> \o classes, {},
                <<H3(TRUE, Some(A(title, Some("https://jobsbotswana.info/jobs/entry/"))), "")>>,
                Some("Untitled"), None, None, None),
        spans[1], spans[2], spans[3])

\* article.noo_job elements for the optional fields: class markers for
\* company, location, job type and category, a heading with or without a
\* separator, and the labelled spans present or absent
Entries ==
    LET CompanyMarkers == {<<>>, <<"job_company-acme-ltd-job-vacancies">>, <<"job_company-">>}
        LocationMarkers == {<<>>, <<"job_location-selebi-phikwe">>}
        JobTypeMarkers == {<<>>, <<"job_type-full-time">>}
        CategoryMarkers == {<<>>, <<"job_category-health-care">>}
        EntryTitles == {"Nurse - Acme", "Nurse " \o EnDash \o " Acme-Ltd", "Nurse",
                        "Clerk -", ""}
        EntrySpans ==
            {<<None, None, None>>,
             <<Some("Contract"), Some(""),
               Some([links |-> <<"Health", "IT">>, text |-> "HealthIT"])>>}
    IN  {Entry(company \o location \o job_type \o category, title, spans) :
            company \in CompanyMarkers, location \in LocationMarkers,
            job_type \in JobTypeMarkers, category \in CategoryMarkers,
            title \in EntryTitles, spans \in EntrySpans}
        \cup {Entry(<<"job_category-health-care", "job_category-it">>, "Nurse",
                    <<None, None, Some([links |-> <<>>, text |-> "Health"])>>),
              Entry(<<"job_category-health-care", "job_category-it">>, "Nurse",
                    <<None, None, None>>)}

\* what the pagination resolver reads on a listing page
ListingPaginations ==
    {[count_text |-> None, page_numbers |-> None],
     [count_text |-> Some("Showing 1-15 of 42 jobs"), page_numbers |-> Some(<<"1", "2", "Next">>)],
     [count_text |-> None, page_numbers |-> Some(<<"1", "^">>)]}

\* the listing pages: up to MaxArticles articles, inside their containers,
\* and one page whose container div holds no article
ListingPages ==
    {[articles |-> articles,
      containers |-> UNION {articles[i].within : i \in 1..Len(articles)},
      count_text |-> pagination.count_text,
      page_numbers |-> pagination.page_numbers] :
        articles \in SeqsUpTo(Articles, MaxArticles), pagination \in ListingPaginations}
    \cup {[articles |-> <<BareBoth>>, containers |-> {"posts-loop-content"},
           count_text |-> None, page_numbers |-> None]}
    \cup {[articles |-> <<entry>>, containers |-> {},
           count_text |-> None, page_numbers |-> None] : entry \in Entries}

ListingArgs == [page : 1..2, category : {None, Some("nurse")},
                location : {None, Some("gaborone")}, job_type : {None}]

\* the content container of a detail page: absent, without paragraphs, with
\* more than five, and with paragraphs (of 100, 499, 500, 600, 1000 and 1001
\* characters) whose joined text is shorter than, as long as and longer than
\* the limit
Contents ==
    LET Text10 == "Apply now."
        Text100 == Text10 \o Text10 \o Text10 \o Text10 \o Text10
                     \o Text10 \o Text10 \o Text10 \o Text10 \o Text10
        Text500 == Text100 \o Text100 \o Text100 \o Text100 \o Text100
        Text499 == SubSeq(Text500, 1, 499)
        Text600 == Text500 \o Text100
        Text1000 == Text500 \o Text500
        Text1001 == Text1000 \o "x"
    IN  {None,
         Some(<<>>),
         Some(<<"Duties.", "", "Apply now.", "Pay.", "Hours.", "Closing soon.">>),
         Some(<<Text1000>>),
         Some(<<Text1001>>),
         Some(<<Text499, Text500>>),
         Some(<<Text500, Text500>>),
         Some(<<Text600, Text600>>),
         Some(<<Text100, Text100, Text100, Text100, Text600, Text600>>)}

\* the detail pages: the first h1 is there whenever an h1.entry-title is
DetailPages ==
    {d \in [h1_entry_title : {None, Some(""), Some("Nurse - Acme")},
            h1 : {None, Some(""), Some("Vacancy")},
            job_closed : BOOLEAN,
            content : Contents] : d.h1_entry_title # None => d.h1 # None}

JobUrls == {"https://jobsbotswana.info/jobs/nurse-acme/", "https://jobsbotswana.info/jobs/gone/"}

\* the items of a sidebar widget: links with a count, two of them with the
\* same count, a link without href or count, and an li without a link
LocationLis ==
    {Li("https://jobsbotswana.info/job-location/maun/", "Maun", Some(5)),
     Li("https://jobsbotswana.info/job-location/gaborone/", "Gaborone", Some(7)),
     Li("https://jobsbotswana.info/job-location/francistown/", "Francistown", Some(5)),
     Li("", "Maun", None),
     [a |-> None, count |-> Some(9)]}

CategoryLis ==
    {Li("https://jobsbotswana.info/job-category/nurse/", "Nurse", Some(3)),
     Li("", "Sales Rep", None),
     Li("/job-category/sales-rep", "Sales", Some(1))}

\* the pages the facet scrapes fetch
FacetPages ==
    Pages
    \cup {[category_widget |-> Some(lis), location_widget |-> None] :
            lis \in SeqsUpTo(CategoryLis, MaxItems)}
    \cup {[category_widget |-> None, location_widget |-> Some(lis)] :
            lis \in SeqsUpTo(LocationLis, MaxItems)}

InitScrape ==
    /\ running = NotRunning
    /\ fetches = <<>>
    /\ result = None
    /\ CacheAtRest /\ RegistryAtRest /\ UrlAtRest /\ PagAtRest

\* an operation is called and runs up to its "await self.fetch_page(url)"
Call(op, args, fetch_url) ==
    /\ running.at = "returned"
    /\ running' = [op |-> op, args |-> args, url |-> fetch_url, at |-> "fetch",
                   fetched |-> None]
    /\ fetches' = <<>>
    /\ result' = None

\* fetch_page has given `fetched` and the operation runs to its end, where
\* it returns or raises `outcome`
Return(op, fetched, outcome) ==
    /\ running.op = op /\ running.at = "fetch"
    /\ running' = [running EXCEPT !.at = "returned", !.fetched = Some(fetched)]
    /\ fetches' = Append(fetches, running.url)
    /\ result' = Some(outcome)

ScrapeListingsCall(a) ==
    Call("scrape_listings", a, build_listing_url(a.page, a.category, a.location, a.job_type))

\* a slip: a failed fetch is tried once more
ScrapeListingsReturn_retrying(fetched) ==
    IF fetched \in FetchFailures /\ fetches = <<>>
    THEN /\ running.op = "scrape_listings" /\ running.at = "fetch"
         /\ fetches' = Append(fetches, running.url)
         /\ UNCHANGED <<running, result>>
    ELSE LET a == running.args
         IN  Return("scrape_listings", fetched,
                    scrape_listings(a.page, a.category, a.location, a.job_type, fetched))

ScrapeListingsReturn(fetched) ==
    LET a == running.args
    IN  Return("scrape_listings", fetched,
               scrape_listings(a.page, a.category, a.location, a.job_type, fetched))

ScrapeJobDetailCall(job_url) == Call("scrape_job_detail", job_url, job_url)

ScrapeJobDetailReturn(fetched) ==
    Return("scrape_job_detail", fetched, scrape_job_detail(running.args, fetched))

ScrapeCategoriesCall == Call("scrape_categories", None, base_url \o "/jobs/")

ScrapeCategoriesReturn(fetched) ==
    Return("scrape_categories", fetched, scrape_categories(fetched))

ScrapeLocationsCall == Call("scrape_locations", None, base_url \o "/jobs/")

ScrapeLocationsReturn(fetched) ==
    Return("scrape_locations", fetched, scrape_locations(fetched))

\* get_job_types(): no await, the call returns at once
GetJobTypes ==
    /\ running.at = "returned"
    /\ running' = [op |-> "get_job_types", args |-> None, at |-> "returned"]
    /\ fetches' = <<>>
    /\ result' = Some(get_job_types)

NextScrape ==
    \/ \E a \in ListingArgs : ScrapeListingsCall(a) /\ UNCHANGED other_than_scrape
    \/ \E fetched \in FetchFailures \cup ListingPages :
          ScrapeListingsReturn(fetched) /\ UNCHANGED other_than_scrape
    \/ \E job_url \in JobUrls : ScrapeJobDetailCall(job_url) /\ UNCHANGED other_than_scrape
    \/ \E fetched \in FetchFailures \cup DetailPages :
          ScrapeJobDetailReturn(fetched) /\ UNCHANGED other_than_scrape
    \/ ScrapeCategoriesCall /\ UNCHANGED other_than_scrape
    \/ \E fetched \in {FetchError} \cup FacetPages :
          ScrapeCategoriesReturn(fetched) /\ UNCHANGED other_than_scrape
    \/ ScrapeLocationsCall /\ UNCHANGED other_than_scrape
    \/ \E fetched \in {FetchError} \cup FacetPages :
          ScrapeLocationsReturn(fetched) /\ UNCHANGED other_than_scrape
    \/ GetJobTypes /\ UNCHANGED other_than_scrape

SpecScrape == InitScrape /\ [][NextScrape]_vars

\* the operation op has returned (or raised) and no other has been called since
Returned(op) == running.op = op /\ running.at = "returned" /\ result # None

\* r is a JobListingsResponse, not an exception
IsEnvelope(r) == "success" \in DOMAIN r

\* C13: when the fetch fails during scrape_listings the call does not raise:
\* it returns an envelope with success False, empty data, a message that
\* carries the error text, and a pagination of total_pages 0, total_jobs 0,
\* jobs_per_page 0, has_next and has_previous False, no next_page and no
\* previous_page.
C13_FetchFailureGivesSoftFailEnvelope ==
    (Returned("scrape_listings") /\ running.fetched[1] \in FetchFailures)
        => LET r == result[1]
               e == running.fetched[1]
           IN  /\ IsEnvelope(r)
               /\ r.success = FALSE
               /\ r.data = <<>>
               /\ r.message = "Failed to fetch page: " \o e.message
               /\ Contains(r.message, e.message)
               /\ r.pagination.total_pages = 0
               /\ r.pagination.total_jobs = 0
               /\ r.pagination.jobs_per_page = 0
               /\ r.pagination.has_next = FALSE
               /\ r.pagination.has_previous = FALSE
               /\ r.pagination.next_page = None
               /\ r.pagination.previous_page = None

\* page 2 of a filtered listing was asked for and the fetch failed with an
\* HTTP error: the envelope carries the error text
C13_Witness ==
    /\ Returned("scrape_listings")
    /\ running.args.page = 2 /\ running.args.category = Some("nurse")
    /\ running.fetched[1] \in FetchFailures
    /\ running.fetched[1].raised = "HTTPStatusError"
    /\ result[1].success = FALSE
    /\ result[1].message = "Failed to fetch page: Server error '503 Service Unavailable'"

\* the entries of a listing page: what the first of the five strategies that
\* finds any article finds
Located(page) ==
    LET by_class(c) == SelectSeq(page.articles, LAMBDA a : has_class(a, c))
        in_container(c) == IF c \in page.containers
                           THEN SelectSeq(page.articles, LAMBDA a : c \in a.within)
                           ELSE <<>>
        found == <<by_class("noo_job"), by_class("loadmore-item"),
                   in_container("posts-loop-content"), in_container("noo-job-list-row"),
                   page.articles>>
        hits == {i \in 1..5 : found[i] # <<>>}
    IN  IF hits = {} THEN <<>> ELSE found[CHOOSE i \in hits : \A j \in hits : i <= j]

\* both required fields of the entry resolved to a non-empty value
HasTitleAndUrl(a) ==
    /\ extract_title(a) # None /\ extract_title(a) # Some("")
    /\ extract_url(a) # None /\ extract_url(a) # Some("")

\* data holds exactly one listing per entry with title and url, in document
\* order
DataMatches(data, entries) ==
    LET kept == SelectSeq(entries, HasTitleAndUrl)
    IN  /\ Len(data) = Len(kept)
        /\ \A i \in 1..Len(kept) :
               /\ data[i].title = extract_title(kept[i])[1]
               /\ data[i].url = extract_url(kept[i])[1]

\* C14: on a successful fetch scrape_listings returns success True, data
\* holding in document order exactly one listing per located entry whose title
\* and url both resolved to a non-empty value and none for any other entry;
\* the N of the message "Successfully fetched N jobs" is the length of data.
C14_SuccessfulFetchListsEntriesWithTitleAndUrl ==
    (Returned("scrape_listings") /\ running.fetched[1] \in ListingPages)
        => LET r == result[1]
           IN  /\ IsEnvelope(r)
               /\ r.success = TRUE
               /\ DataMatches(r.data, Located(running.fetched[1]))
               /\ r.message = "Successfully fetched " \o ToString(Len(r.data)) \o " jobs"

\* the detail page fetched yields no title
NoDetailTitle(page) ==
    IF page.h1_entry_title # None THEN page.h1_entry_title = Some("")
    ELSE page.h1 = None \/ page.h1 = Some("")

NoPrimaryMatch(page) == \A i \in 1..Len(page.articles) : ~has_class(page.articles[i], "noo_job")

C17_FacetScrapeReturnsEmptyOnFailure ==
    /\ (Returned("scrape_categories")
          /\ (running.fetched[1] = FetchError \/ running.fetched[1].category_widget = None))
        => result[1] = <<>>
    /\ (Returned("scrape_locations")
          /\ (running.fetched[1] = FetchError \/ running.fetched[1].location_widget = None))
        => result[1] = <<>>

\* the fetch of scrape_categories failed and the call returned the empty list
C17_Witness ==
    /\ Returned("scrape_categories")
    /\ running.fetched[1] = FetchError
    /\ Len(fetches) = 1
    /\ result = Some(<<>>)

\* the bijections of 1..n
Bijections(n) == {f \in [1..n -> 1..n] : \A i, j \in 1..n : f[i] = f[j] => i = j}

\* C18: the list scrape_locations returns is a permutation of the parsed
\* widget items, sorted by count in descending order, two items of equal
\* count standing in their document order.
C18_LocationsSortedByCountStable ==
    (Returned("scrape_locations") /\ running.fetched[1] # FetchError
        /\ running.fetched[1].location_widget # None)
        => LET items == parse_items(running.fetched[1].location_widget[1], "location", <<>>)
               r == result[1]
               n == Len(items)
           IN  /\ Len(r) = n
               /\ \E f \in Bijections(n) :
                      /\ \A i \in 1..n : r[i] = items[f[i]]
                      /\ \A i, j \in 1..n :
                             i < j => \/ r[i].count > r[j].count
                                      \/ r[i].count = r[j].count /\ f[i] < f[j]

\* Maun (5), Gaborone (7), Francistown (5) in the document: Gaborone first,
\* then the two of count 5 as they stood
C18_Witness ==
    /\ Returned("scrape_locations")
    /\ running.fetched[1] # FetchError
    /\ running.fetched[1].location_widget # None
    /\ Len(result[1]) = 3
    /\ result[1][1].slug = "gaborone" /\ result[1][1].count = 7
    /\ result[1][2].slug = "maun" /\ result[1][2].count = 5
    /\ result[1][3].slug = "francistown" /\ result[1][3].count = 5
    /\ running.fetched[1].location_widget[1][1].a[1].text = "Maun"

\* C19: no operation retries a fetch: an invocation of scrape_listings,
\* scrape_job_detail, scrape_categories or scrape_locations calls fetch_page
\* at most once, also when the fetch fails, and get_job_types calls it zero
\* times and returns the same fixed enumeration on every call.
C19_AtMostOneFetchPerInvocation ==
    /\ Len(fetches) <= 1
    /\ (running.op # "none" /\ running.op # "get_job_types" /\ running.at = "returned")
        => fetches = <<running.url>>
    /\ running.op = "get_job_types"
        => /\ fetches = <<>>
           /\ result # None
           /\ Len(result[1]) = 5
           /\ [i \in 1..5 |-> result[1][i].slug]
                = <<"full-time", "contract", "part-time", "temporary", "internship">>
           /\ [i \in 1..5 |-> result[1][i].name]
                = <<"Full Time", "Contract", "Part Time", "Temporary", "Internship">>
           /\ \A i \in 1..5 : result[1][i].count = 0

\* scrape_listings has returned its soft-fail envelope after a failed fetch,
\* having fetched once
C19_Witness ==
    /\ Returned("scrape_listings")
    /\ running.fetched[1] \in FetchFailures
    /\ fetches = <<running.url>>
    /\ result[1].success = FALSE

\* C20: in every list scrape_categories or scrape_locations returns no two
\* facets have the same slug, whatever the widget holds.
C20_FacetSlugsAreUnique ==
    (Returned("scrape_categories") \/ Returned("scrape_locations"))
        => \A i, j \in 1..Len(result[1]) :
               result[1][i].slug = result[1][j].slug => i = j

\* C24: the PaginationInfo of every envelope scrape_listings returns, the
\* soft-fail envelope included, has has_previous = (current_page > 1),
\* has_next = (current_page < total_pages), and next_page and previous_page
\* present exactly when their flag is true.
C24_EveryEnvelopeHasConsistentNavigation ==
    (Returned("scrape_listings") /\ IsEnvelope(result[1]))
        => LET p == result[1].pagination
           IN  /\ p.has_previous = (p.current_page > 1)
               /\ p.has_next = (p.current_page < p.total_pages)
               /\ (p.next_page # None) = p.has_next
               /\ (p.previous_page # None) = p.has_previous

\* the entries of a page that scrape_listings turns into listings: data[i] is
\* the listing of Kept(page)[i]
Kept(page) == SelectSeq(Located(page), HasTitleAndUrl)

\* scrape_listings has returned its envelope for a fetched page
ListedPage ==
    /\ Returned("scrape_listings")
    /\ running.fetched[1] \in ListingPages
    /\ IsEnvelope(result[1])

\* c is the company the text yields: the trimmed last segment of the text
\* split at the first separator, in the order they are tried, that it contains
IsTitleCompany(c, text) ==
    \E i \in 1..Len(Separators) :
        /\ Contains(text, Separators[i])
        /\ \A j \in 1..(i - 1) : ~Contains(text, Separators[j])
        /\ LET segments == split(text, Separators[i])
           IN  c = strip(segments[Len(segments)])

HasSeparator(text) == \E i \in 1..Len(Separators) : Contains(text, Separators[i])

\* the class cls without its first n characters, each hyphen-separated word
\* capitalised, the words joined by single spaces
TitleCased(cls, n) ==
    LET words == split(SubSeq(cls, n + 1, Len(cls)), "-")
    IN  join(" ", [i \in 1..Len(words) |-> capitalize(words[i])])

\* the company a job_company- class yields: prefix and the suffix
\* -job-vacancies taken off, the rest title-cased
MarkerCompany(cls) ==
    LET slug == SubSeq(cls, Len("job_company-") + 1, Len(cls))
        bare == IF EndsWith(slug, "-job-vacancies")
                THEN SubSeq(slug, 1, Len(slug) - Len("-job-vacancies")) ELSE slug
    IN  TitleCased("job_company-" \o bare, Len("job_company-"))

\* C22 as the specification words it: the company is taken from the title
\* whenever the title holds a separator, and from the job_company- class only
\* when the title yields none.
C22_CompanyIsTakenFromTitleFirst ==
    ListedPage =>
        \A i \in 1..Len(Kept(running.fetched[1])) :
            LET a == Kept(running.fetched[1])[i]
                job == result[1].data[i]
                marked == classes_with(a, "job_company-")
            IN  IF HasSeparator(job.title)
                THEN job.company # None /\ IsTitleCompany(job.company[1], job.title)
                ELSE IF marked # <<>> THEN job.company = Some(MarkerCompany(marked[1]))
                ELSE job.company = None

\* C22: the company of a listing is taken first from the entry's first
\* job_company- class (prefix and -job-vacancies taken off, the rest
\* title-cased); only an entry without such a class gets its company from
\* the text of its h3.loop-item-title heading, as the trimmed last segment at
\* the first of the separators the text contains; otherwise it has none.
C22_CompanyIsTakenFromClassFirst ==
    ListedPage =>
        \A i \in 1..Len(Kept(running.fetched[1])) :
            LET a == Kept(running.fetched[1])[i]
                job == result[1].data[i]
                marked == classes_with(a, "job_company-")
                heading == find_title_h3(a)
            IN  IF marked # <<>> THEN job.company = Some(MarkerCompany(marked[1]))
                ELSE IF heading # None /\ HasSeparator(h3_get_text(heading[1]))
                THEN job.company # None
                     /\ IsTitleCompany(job.company[1], h3_get_text(heading[1]))
                ELSE job.company = None

\* an entry with the class job_company-acme-ltd-job-vacancies and the title
\* "Nurse - Acme" is listed with the company of the class
C22_Witness ==
    /\ ListedPage
    /\ Len(result[1].data) = 1
    /\ has_class(Kept(running.fetched[1])[1], "job_company-acme-ltd-job-vacancies")
    /\ result[1].data[1].title = "Nurse - Acme"
    /\ result[1].data[1].company = Some("Acme Ltd")

\* C23: no field of a listing is an empty string, and an entry whose heading
\* link text is empty and whose data-title attribute is not is listed with
\* the data-title as its title.
C23_StrategyChainsFallThroughOnEmpty ==
    ListedPage =>
        /\ \A i \in 1..Len(result[1].data) :
              LET job == result[1].data[i]
              IN  /\ job.title # ""
                  /\ job.company # Some("")
                  /\ job.job_type # Some("")
                  /\ job.location # Some("")
                  /\ job.category # Some("")
        /\ \A k \in 1..Len(Located(running.fetched[1])) :
              LET a == Located(running.fetched[1])[k]
              IN  (/\ a.h3s # <<>> /\ a.h3s[1].a # None /\ a.h3s[1].a[1].text = ""
                   /\ a.data_title # None /\ a.data_title # Some("")
                   /\ extract_url(a) # None /\ extract_url(a) # Some(""))
                  => \E i \in 1..Len(result[1].data) :
                         result[1].data[i].title = a.data_title[1]

\* C25: a listing's job_type, location and category, when the entry has no
\* labelled span for the field and one class with the field's prefix, is that
\* class with the prefix taken off, title-cased.
C25_MarkerDerivedFieldsAreTitleCased ==
    ListedPage =>
        \A i \in 1..Len(Kept(running.fetched[1])) :
            LET a == Kept(running.fetched[1])[i]
                job == result[1].data[i]
                types == classes_with(a, "job_type-")
                locations == classes_with(a, "job_location-")
                categories == classes_with(a, "job_category-")
            IN  /\ (a.job_type_span = None /\ Len(types) = 1)
                     => job.job_type = Some(TitleCased(types[1], Len("job_type-")))
                /\ (a.location_span = None /\ Len(locations) = 1)
                     => job.location = Some(TitleCased(locations[1], Len("job_location-")))
                /\ (a.category_span = None /\ Len(categories) = 1)
                     => job.category = Some(TitleCased(categories[1], Len("job_category-")))

\* scrape_job_detail has returned the listing of a fetched detail page that
\* has a content container
DetailWithContent ==
    /\ Returned("scrape_job_detail")
    /\ running.fetched[1] \in DetailPages
    /\ result[1] # None
    /\ running.fetched[1].content # None

\* C21: the description of a detail page is the texts of the first 5
\* paragraphs of its content container joined by single spaces; a joined
\* text of more than 1000 characters is cut to its first 1000 characters
\* followed by "...", one of 1000 characters or fewer is returned unchanged.
C21_DescriptionIsCutAtLimit ==
    DetailWithContent =>
        LET paragraphs == running.fetched[1].content[1]
            n == IF Len(paragraphs) < 5 THEN Len(paragraphs) ELSE 5
            joined == join(" ", [i \in 1..n |-> paragraphs[i]])
            description == result[1][1].description
        IN  /\ description # None
            /\ IF Len(joined) > 1000
               THEN /\ Len(description[1]) = 1003
                    /\ SubSeq(description[1], 1, 1000) = SubSeq(joined, 1, 1000)
                    /\ SubSeq(description[1], 1001, 1003) = "..."
               ELSE description[1] = joined

\* two paragraphs of 600 characters: the description is the first, a space,
\* the first 399 characters of the second, and "..."
C21_Witness ==
    /\ DetailWithContent
    /\ LET paragraphs == running.fetched[1].content[1]
       IN  /\ Len(paragraphs) = 2
           /\ Len(paragraphs[1]) = 600 /\ Len(paragraphs[2]) = 600
           /\ result[1][1].description
                = Some(paragraphs[1] \o " " \o SubSeq(paragraphs[2], 1, 399) \o "...")

====
